---- MODULE Spec2Model ----
(***************************************************************************)
(* The facelet engine of the cube game (src/js/cube-state.js): the 54      *)
(* stickers, the move history, the cached completion flag, and the         *)
(* operations executeMove, undoLastMove, reset, getStateCopy, setState,    *)
(* clearHistory, driven by the player, by scramble playback and by the     *)
(* solver's working copy.                                                  *)
(* Faces are indexed 0..8 as in the source; a notation is the sequence of  *)
(* its characters.                                                         *)
(***************************************************************************)
EXTENDS Integers, Sequences, FiniteSets, TLC

VARIABLES
    state,        \* CubeState.state: face -> 9 colours
    moveHistory,  \* CubeState.moveHistory
    isCompleted,  \* CubeState.isCompleted
    working,      \* the solver's working copy, while a solve() call holds one
    pending,      \* scramble moves whose playback timer has not fired yet
    playback,     \* "idle", or "playing" while a scramble is being played
    op,           \* the last call made on the engine and its argument
    ret,          \* the value that call returned
    prev,         \* the cube as it was before that call
    run,          \* how many times in a row the last notation was executed
    runStart,     \* the facelets before the first call of that run
    gen,          \* the generateScramble call in progress or last returned
    opt,          \* the last optimizeSolution call and the replay of its lists
    rev,          \* the last generateReverseScramble call and its playback
    mem,          \* the arrays in memory and the objects that refer to them
    hop,          \* the last call made on the objects of mem
    solver,       \* the solve(cubeState) call in progress or last returned
    game          \* RubiksCubeGame: its gameState, the renderer and the timers

engine == <<state, moveHistory, isCompleted, working, pending, playback,
            op, ret, prev, run, runStart>>

\* What no call on the engine touches.
aux == <<gen, opt, rev, mem, hop, solver, game>>

vars == <<engine, aux>>

\* Bounds of the exploration.
MaxHistory == 2

MaxPrefix == 1

MaxRun == 4
\* Longest string handed to parseMove on its own.
MaxParseLen == 3

\* Largest length asked of generateScramble, and the number of positions at
\* the end of a longer scramble whose draws are all explored.
MaxScramble == 3

\* Longest list handed to optimizeSolution on its own.
MaxSolution == 4

\* Longest sequence handed to generateReverseScramble.
MaxReverse == 2

\* Calls made on the engine and on its snapshot, by reference.
MaxAliasCalls == 4

\* Moves the player made before solve(cubeState) is called.
MaxSolveHistory == 2

\* Moves executed before a pair of turns of opposite faces.
MaxCommute == 1

\* Moves in the player's history of the game, length of the scrambles the
\* game plays back, playbacks in flight at once, longest list solve returns
\* to the game, and step timers of the solution playback pending at once.
MaxGameHistory == 1

MaxGameScramble == 2

MaxPlaybacks == 2

MaxGameSolution == 2

MaxStepTimers == 2

\* generateSolution timers pending at once.
MaxGenerating == 1

\* Animations waiting in the renderer's queue when a scramble timer fires.
MaxAnimationQueue == 1

\* Outcomes of Math.random() explored in one solve; later ones are 0.
MaxRandomDraws == 1

\* Longest sequence handed to validateScramble on its own.
MaxValidate == 3

Faces == {"U", "D", "R", "L", "F", "B"}

Colors == {"white", "yellow", "red", "orange", "blue", "green"}

Idx == 0..8

\* ------------------------------------------------------------------------
\* Strings: String.prototype.trim and toUpperCase on the characters used.
Whitespace == {" ", "\t"}

toUpperChar(c) ==
    CASE c = "r" -> "R" [] c = "l" -> "L" [] c = "u" -> "U"
      [] c = "d" -> "D" [] c = "f" -> "F" [] c = "b" -> "B"
      [] c = "x" -> "X" [] OTHER -> c

toUpperCase(s) == [i \in 1..Len(s) |-> toUpperChar(s[i])]

RECURSIVE trimStart(_)
trimStart(s) ==
    IF s # <<>> /\ Head(s) \in Whitespace THEN trimStart(Tail(s)) ELSE s

RECURSIVE trimEnd(_)
trimEnd(s) ==
    IF s # <<>> /\ s[Len(s)] \in Whitespace
    THEN trimEnd(SubSeq(s, 1, Len(s) - 1)) ELSE s

trim(s) == trimEnd(trimStart(s))

\* ------------------------------------------------------------------------
\* parseMove: null, or {face, clockwise, double}.
Null == [null |-> TRUE]

\* parseMove with the pattern left open at the end: /^([RLUDFB])(['2]?)/.
parseMoveOpenEnd(move) ==
    LET cleanMove == toUpperCase(trim(move))
        match == /\ Len(cleanMove) >= 1
                 /\ cleanMove[1] \in {"R", "L", "U", "D", "F", "B"}
    IN  IF ~match THEN Null
        ELSE LET face == cleanMove[1]
                 modifier == IF Len(cleanMove) >= 2 /\ cleanMove[2] \in {"'", "2"}
                             THEN cleanMove[2] ELSE ""
             IN  [face |-> face,
                  clockwise |-> modifier # "'",
                  double |-> modifier = "2"]

\* parseMove without the toUpperCase() of line 75.
parseMoveNoUpperCase(move) ==
    LET cleanMove == trim(move)
        match == /\ Len(cleanMove) \in {1, 2}
                 /\ cleanMove[1] \in {"R", "L", "U", "D", "F", "B"}
                 /\ Len(cleanMove) = 2 => cleanMove[2] \in {"'", "2"}
    IN  IF ~match THEN Null
        ELSE LET face == cleanMove[1]
                 modifier == IF Len(cleanMove) = 2 THEN cleanMove[2] ELSE ""
             IN  [face |-> face,
                  clockwise |-> modifier # "'",
                  double |-> modifier = "2"]

parseMove(move) ==
    LET cleanMove == toUpperCase(trim(move))
        match == /\ Len(cleanMove) \in {1, 2}
                 /\ cleanMove[1] \in {"R", "L", "U", "D", "F", "B"}
                 /\ Len(cleanMove) = 2 => cleanMove[2] \in {"'", "2"}
    IN  IF ~match THEN Null
        ELSE LET face == cleanMove[1]
                 modifier == IF Len(cleanMove) = 2 THEN cleanMove[2] ELSE ""
             IN  [face |-> face,
                  clockwise |-> modifier # "'",
                  double |-> modifier = "2"]

\* getReverseMove answering a clockwise turn with the clockwise turn.
getReverseMoveSame(move) ==
    LET moveData == parseMove(move)
    IN  IF moveData = Null THEN <<>>
        ELSE IF moveData.double THEN <<moveData.face, "2">>
        ELSE IF moveData.clockwise THEN <<moveData.face>>
        ELSE <<moveData.face>>

getReverseMove(move) ==
    LET moveData == parseMove(move)
    IN  IF moveData = Null THEN <<>>
        ELSE IF moveData.double THEN <<moveData.face, "2">>
        ELSE IF moveData.clockwise THEN <<moveData.face, "'">>
        ELSE <<moveData.face>>

\* ------------------------------------------------------------------------
\* rotateFaceArray taking the centre through the middle column:
\* faceArray[4] = temp[1] and faceArray[1] = temp[4] in both branches.
rotateFaceArrayCentre(faceArray, clockwise) ==
    LET temp == faceArray
    IN  IF clockwise
        THEN [i \in Idx |->
                CASE i = 0 -> temp[6] [] i = 1 -> temp[4] [] i = 2 -> temp[0]
                  [] i = 3 -> temp[7] [] i = 4 -> temp[1] [] i = 5 -> temp[3]
                  [] i = 6 -> temp[8] [] i = 7 -> temp[5] [] i = 8 -> temp[2]]
        ELSE [i \in Idx |->
                CASE i = 0 -> temp[2] [] i = 1 -> temp[4] [] i = 2 -> temp[8]
                  [] i = 3 -> temp[5] [] i = 4 -> temp[1] [] i = 5 -> temp[7]
                  [] i = 6 -> temp[0] [] i = 7 -> temp[3] [] i = 8 -> temp[6]]

\* rotateFaceArray with faceArray[1] = temp[5] in the clockwise branch.
rotateFaceArrayTypo(faceArray, clockwise) ==
    LET temp == faceArray
    IN  IF clockwise
        THEN [i \in Idx |->
                CASE i = 0 -> temp[6] [] i = 1 -> temp[5] [] i = 2 -> temp[0]
                  [] i = 3 -> temp[7] [] i = 4 -> temp[4] [] i = 5 -> temp[1]
                  [] i = 6 -> temp[8] [] i = 7 -> temp[5] [] i = 8 -> temp[2]]
        ELSE [i \in Idx |->
                CASE i = 0 -> temp[2] [] i = 1 -> temp[5] [] i = 2 -> temp[8]
                  [] i = 3 -> temp[1] [] i = 4 -> temp[4] [] i = 5 -> temp[7]
                  [] i = 6 -> temp[0] [] i = 7 -> temp[3] [] i = 8 -> temp[6]]

\* rotateFaceArray: the 9 stickers of the turned face.
rotateFaceArray(faceArray, clockwise) ==
    LET temp == faceArray
    IN  IF clockwise
        THEN [i \in Idx |->
                CASE i = 0 -> temp[6] [] i = 1 -> temp[3] [] i = 2 -> temp[0]
                  [] i = 3 -> temp[7] [] i = 4 -> temp[4] [] i = 5 -> temp[1]
                  [] i = 6 -> temp[8] [] i = 7 -> temp[5] [] i = 8 -> temp[2]]
        ELSE [i \in Idx |->
                CASE i = 0 -> temp[2] [] i = 1 -> temp[5] [] i = 2 -> temp[8]
                  [] i = 3 -> temp[1] [] i = 4 -> temp[4] [] i = 5 -> temp[7]
                  [] i = 6 -> temp[0] [] i = 7 -> temp[3] [] i = 8 -> temp[6]]

\* The table of rotateAdjacentEdges: per face, the cycle of
\* (neighbour face, 3 facelet indices) used for each direction.
rotations ==
    [R |-> [clockwise |->
              << <<"U", <<2, 5, 8>>>>, <<"F", <<2, 5, 8>>>>, <<"D", <<2, 5, 8>>>>, <<"B", <<6, 3, 0>>>> >>,
            counterClockwise |->
              << <<"U", <<2, 5, 8>>>>, <<"B", <<6, 3, 0>>>>, <<"D", <<2, 5, 8>>>>, <<"F", <<2, 5, 8>>>> >>],
     L |-> [clockwise |->
              << <<"U", <<0, 3, 6>>>>, <<"B", <<8, 5, 2>>>>, <<"D", <<0, 3, 6>>>>, <<"F", <<0, 3, 6>>>> >>,
            counterClockwise |->
              << <<"U", <<0, 3, 6>>>>, <<"F", <<0, 3, 6>>>>, <<"D", <<0, 3, 6>>>>, <<"B", <<8, 5, 2>>>> >>],
     U |-> [clockwise |->
              << <<"B", <<0, 1, 2>>>>, <<"R", <<0, 1, 2>>>>, <<"F", <<0, 1, 2>>>>, <<"L", <<0, 1, 2>>>> >>,
            counterClockwise |->
              << <<"B", <<0, 1, 2>>>>, <<"L", <<0, 1, 2>>>>, <<"F", <<0, 1, 2>>>>, <<"R", <<0, 1, 2>>>> >>],
     D |-> [clockwise |->
              << <<"F", <<6, 7, 8>>>>, <<"R", <<6, 7, 8>>>>, <<"B", <<6, 7, 8>>>>, <<"L", <<6, 7, 8>>>> >>,
            counterClockwise |->
              << <<"F", <<6, 7, 8>>>>, <<"L", <<6, 7, 8>>>>, <<"B", <<6, 7, 8>>>>, <<"R", <<6, 7, 8>>>> >>],
     F |-> [clockwise |->
              << <<"U", <<6, 7, 8>>>>, <<"R", <<0, 3, 6>>>>, <<"D", <<2, 1, 0>>>>, <<"L", <<8, 5, 2>>>> >>,
            counterClockwise |->
              << <<"U", <<6, 7, 8>>>>, <<"L", <<8, 5, 2>>>>, <<"D", <<2, 1, 0>>>>, <<"R", <<0, 3, 6>>>> >>],
     B |-> [clockwise |->
              << <<"U", <<2, 1, 0>>>>, <<"L", <<0, 3, 6>>>>, <<"D", <<6, 7, 8>>>>, <<"R", <<8, 5, 2>>>> >>,
            counterClockwise |->
              << <<"U", <<2, 1, 0>>>>, <<"R", <<8, 5, 2>>>>, <<"D", <<6, 7, 8>>>>, <<"L", <<0, 3, 6>>>> >>]]

\* state[toFace][toIndices[j]] = state[fromFace][fromIndices[j]], j = 0, 1, 2 in turn.
RECURSIVE copyStrip(_, _, _, _)
copyStrip(st, from, to, j) ==
    IF j > 3 THEN st
    ELSE copyStrip([st EXCEPT ![to[1]][to[2][j]] = st[from[1]][from[2][j]]],
                   from, to, j + 1)

\* state[lastFace][lastIndices[i]] = temp[i], i = 0, 1, 2 in turn.
RECURSIVE putStrip(_, _, _, _)
putStrip(st, temp, last, i) ==
    IF i > 3 THEN st
    ELSE putStrip([st EXCEPT ![last[1]][last[2][i]] = temp[i]], temp, last, i + 1)

\* The loop "for (i = 0; i < cycle.length - 1; i++)" of rotateAdjacentEdges.
RECURSIVE shiftCycle(_, _, _)
shiftCycle(st, cycle, i) ==
    IF i > Len(cycle) - 1 THEN st
    ELSE shiftCycle(copyStrip(st, cycle[i + 1], cycle[i], 1), cycle, i + 1)

\* rotateAdjacentEdges reading the first strip only after the loop has
\* overwritten it.
rotateAdjacentEdgesNoTemp(st, face, clockwise) ==
    IF face \notin DOMAIN rotations THEN st
    ELSE LET rotation == rotations[face]
             cycle == IF clockwise THEN rotation.clockwise
                                   ELSE rotation.counterClockwise
             first == cycle[1]
             shifted == shiftCycle(st, cycle, 1)
             temp == [k \in 1..3 |-> shifted[first[1]][first[2][k]]]
         IN  putStrip(shifted, temp, cycle[Len(cycle)], 1)

\* rotateAdjacentEdges taking the cycle of the other direction.
rotateAdjacentEdgesOtherCycle(st, face, clockwise) ==
    IF face \notin DOMAIN rotations THEN st
    ELSE LET rotation == rotations[face]
             cycle == IF clockwise THEN rotation.counterClockwise
                                   ELSE rotation.clockwise
             first == cycle[1]
             temp == [k \in 1..3 |-> st[first[1]][first[2][k]]]
         IN  putStrip(shiftCycle(st, cycle, 1), temp, cycle[Len(cycle)], 1)

rotateAdjacentEdges(st, face, clockwise) ==
    IF face \notin DOMAIN rotations THEN st
    ELSE LET rotation == rotations[face]
             cycle == IF clockwise THEN rotation.clockwise
                                   ELSE rotation.counterClockwise
             first == cycle[1]
             temp == [k \in 1..3 |-> st[first[1]][first[2][k]]]
         IN  putStrip(shiftCycle(st, cycle, 1), temp, cycle[Len(cycle)], 1)

rotateFace(st, face, clockwise) ==
    rotateAdjacentEdges([st EXCEPT ![face] = rotateFaceArray(st[face], clockwise)],
                        face, clockwise)

\* ------------------------------------------------------------------------
\* checkCompleted returning true from inside the loop, after the first face.
checkCompletedFirstFace(st) ==
    \A i \in Idx : st["U"][i] = st["U"][0]

\* checkCompleted: every face is one colour (the value returned and cached).
checkCompleted(st) ==
    \A face \in DOMAIN st : \A i \in Idx : st[face][i] = st[face][0]

\* A cube: the three fields of a CubeState object.
Cube(st, hist, done) == [state |-> st, moveHistory |-> hist, isCompleted |-> done]

\* reset() with the B face filled with the colour of F.
resetTwoBlue ==
    Cube([U |-> [i \in Idx |-> "white"],
          D |-> [i \in Idx |-> "yellow"],
          R |-> [i \in Idx |-> "red"],
          L |-> [i \in Idx |-> "orange"],
          F |-> [i \in Idx |-> "blue"],
          B |-> [i \in Idx |-> "blue"]],
         <<>>, TRUE)

\* reset(): the solved assignment, empty history, flag set.
reset ==
    Cube([U |-> [i \in Idx |-> "white"],
          D |-> [i \in Idx |-> "yellow"],
          R |-> [i \in Idx |-> "red"],
          L |-> [i \in Idx |-> "orange"],
          F |-> [i \in Idx |-> "blue"],
          B |-> [i \in Idx |-> "green"]],
         <<>>, TRUE)

\* The tail of executeMove: the history as pushed, then checkCompleted().
recorded(st, hist) == Cube(st, hist, checkCompleted(st))

\* executeMove turning once for a half turn.
executeMoveOnce(c, move) ==
    LET moveData == parseMove(move)
    IN  IF moveData = Null THEN [cube |-> c, ret |-> FALSE]
        ELSE LET turned == rotateFace(c.state, moveData.face, moveData.clockwise)
             IN  [cube |-> recorded(turned, Append(c.moveHistory, move)), ret |-> TRUE]

\* executeMove(move) on cube c: the cube afterwards and the value returned.
executeMove(c, move) ==
    LET moveData == parseMove(move)
    IN  IF moveData = Null THEN [cube |-> c, ret |-> FALSE]
        ELSE LET face == moveData.face
                 clockwise == moveData.clockwise
                 turned == IF moveData.double
                       THEN rotateFace(rotateFace(c.state, face, clockwise), face, clockwise)
                       ELSE rotateFace(c.state, face, clockwise)
             IN  [cube |-> recorded(turned, Append(c.moveHistory, move)), ret |-> TRUE]

\* undoLastMove answering true on an empty history.
undoLastMoveAlwaysTrue(c) ==
    IF Len(c.moveHistory) = 0 THEN [cube |-> c, ret |-> TRUE]
    ELSE LET lastMove == c.moveHistory[Len(c.moveHistory)]
             tempHistory == SubSeq(c.moveHistory, 1, Len(c.moveHistory) - 1)
             replayed == executeMove(Cube(c.state, <<>>, c.isCompleted),
                                     getReverseMove(lastMove)).cube
         IN  [cube |-> recorded(replayed.state, tempHistory), ret |-> TRUE]

\* undoLastMove replaying the inverse on the live history.
undoLastMoveRecorded(c) ==
    IF Len(c.moveHistory) = 0 THEN [cube |-> c, ret |-> FALSE]
    ELSE LET lastMove == c.moveHistory[Len(c.moveHistory)]
             popped == SubSeq(c.moveHistory, 1, Len(c.moveHistory) - 1)
             replayed == executeMove(Cube(c.state, popped, c.isCompleted),
                                     getReverseMove(lastMove)).cube
         IN  [cube |-> recorded(replayed.state, replayed.moveHistory), ret |-> TRUE]

\* undoLastMove restoring the history as it was before the pop.
undoLastMoveNoPop(c) ==
    IF Len(c.moveHistory) = 0 THEN [cube |-> c, ret |-> FALSE]
    ELSE LET lastMove == c.moveHistory[Len(c.moveHistory)]
             tempHistory == c.moveHistory
             replayed == executeMove(Cube(c.state, <<>>, c.isCompleted),
                                     getReverseMove(lastMove)).cube
         IN  [cube |-> recorded(replayed.state, tempHistory), ret |-> TRUE]

\* undoLastMove() on cube c.
undoLastMove(c) ==
    IF Len(c.moveHistory) = 0 THEN [cube |-> c, ret |-> FALSE]
    ELSE LET lastMove == c.moveHistory[Len(c.moveHistory)]
             popped == SubSeq(c.moveHistory, 1, Len(c.moveHistory) - 1)
             reverseMove == getReverseMove(lastMove)
             tempHistory == popped
             replayed == executeMove(Cube(c.state, <<>>, c.isCompleted), reverseMove).cube
         IN  [cube |-> recorded(replayed.state, tempHistory), ret |-> TRUE]

getStateCopy(c) == [face \in DOMAIN c.state |-> [i \in DOMAIN c.state[face] |-> c.state[face][i]]]

setState(c, newState) ==
    LET st == [face \in DOMAIN newState |-> [i \in DOMAIN newState[face] |-> newState[face][i]]]
    IN  Cube(st, c.moveHistory, checkCompleted(st))

clearHistory(c) == Cube(c.state, <<>>, c.isCompleted)

getMoveHistory(c) == [i \in 1..Len(c.moveHistory) |-> c.moveHistory[i]]

\* CubeSolver.createWorkingState: a new CubeState given the facelets and the
\* history of cubeState.
createWorkingState(cubeState) ==
    LET workingState == setState(reset, getStateCopy(cubeState))
    IN  [workingState EXCEPT !.moveHistory = getMoveHistory(cubeState)]

\* ------------------------------------------------------------------------
\* The notations submitted by callers.
ValidNotations ==
    {<<f>> : f \in Faces} \cup {<<f, m>> : f \in Faces, m \in {"'", "2"}}

\* Accepted only thanks to trim and toUpperCase.
LooseNotations == { <<" ", "u", "'", "\t">> }

Malformed == { <<>>, <<"x">>, <<"R", " ", "'">> }

Notations == ValidNotations \cup LooseNotations \cup Malformed

\* The scramble sequences handed to executeScrambleSequence.
Scrambles ==
    { << <<"R">>, <<"U">>, <<"F", "'">>, <<"L", "2">>, <<"D">>, <<"B", "'">> >>,
      << <<"F">>, <<"R", "'">>, <<"U", "2">>, <<"B">>, <<"L", "'">>, <<"D", "2">> >> }

\* ------------------------------------------------------------------------
\* ScrambleGenerator.
baseMoves == <<"R", "L", "U", "D", "F", "B">>

modifiers == << <<>>, <<"'">>, <<"2">> >>

\* oppositeFaces naming for each face the next face of baseMoves' axes.
oppositeFacesNeighbour ==
    [f \in {"R", "L", "U", "D", "F", "B"} |->
        CASE f = "R" -> "U" [] f = "L" -> "D" [] f = "U" -> "F"
          [] f = "D" -> "B" [] f = "F" -> "R" [] f = "B" -> "L"]

oppositeFaces ==
    [f \in {"R", "L", "U", "D", "F", "B"} |->
        CASE f = "R" -> "L" [] f = "L" -> "R" [] f = "U" -> "D"
          [] f = "D" -> "U" [] f = "F" -> "B" [] f = "B" -> "F"]

defaultLength == 20

maxAttempts == 100

nullFace == "null"

extractFace(move) == IF move # <<>> THEN move[1] ELSE nullFace

\* isValidMove without the rule on a face, its opposite and the face again.
isValidMoveSameFaceOnly(move, lastMove, lastLastMove) ==
    LET currentFace == extractFace(move)
    IN  currentFace # lastMove

isValidMove(move, lastMove, lastLastMove) ==
    LET currentFace == extractFace(move)
    IN  IF currentFace = lastMove THEN FALSE
        ELSE IF oppositeFaces[currentFace] = lastMove /\ currentFace = lastLastMove
             THEN FALSE
             ELSE TRUE

\* isValidMoveFormat with the pattern /^[RLUDFB]'?$/.
isValidMoveFormatNoDouble(move) ==
    /\ Len(move) \in {1, 2}
    /\ move[1] \in {"R", "L", "U", "D", "F", "B"}
    /\ Len(move) = 2 => move[2] = "'"

isValidMoveFormat(move) ==
    /\ Len(move) \in {1, 2}
    /\ move[1] \in {"R", "L", "U", "D", "F", "B"}
    /\ Len(move) = 2 => move[2] \in {"'", "2"}

\* validateScramble: the errors in the order they are pushed.
RECURSIVE validateErrors(_, _)
validateErrors(scrambleArray, i) ==
    IF ~(i < Len(scrambleArray)) THEN <<>>
    ELSE LET move == scrambleArray[i + 1]
             lastMove == extractFace(scrambleArray[i])
             lastLastMove == IF i > 1 THEN extractFace(scrambleArray[i - 1])
                             ELSE nullFace
             pushed ==
                 IF ~isValidMoveFormat(move)
                 THEN << [error |-> "Invalid move format", move |-> move] >>
                 ELSE IF i > 0 /\ ~isValidMove(move, lastMove, lastLastMove)
                      THEN << [error |-> "Invalid move sequence at position",
                               position |-> i + 1, move |-> move] >>
                      ELSE <<>>
         IN  pushed \o validateErrors(scrambleArray, i + 1)

\* validateScramble that tests the format of the moves alone.
validateScrambleFormatOnly(scrambleArray) ==
    LET errors == SelectSeq([i \in 1..Len(scrambleArray) |->
                                [error |-> "Invalid move format",
                                 move |-> scrambleArray[i]]],
                            LAMBDA e : ~isValidMoveFormat(e.move))
    IN  [isValid |-> Len(errors) = 0, errors |-> errors]

validateScramble(scrambleArray) ==
    LET errors == validateErrors(scrambleArray, 0)
    IN  [isValid |-> Len(errors) = 0, errors |-> errors]

\* The length generateScramble settles on (lines 31-45); `requested` is <<>>
\* when the argument is omitted and <<n>> when n is passed.
lengthFor(requested, difficulty) ==
    LET length == IF requested = <<>> THEN 0 ELSE requested[1]
    IN  IF length = 0
        THEN CASE difficulty = "easy" -> 12
               [] difficulty = "medium" -> 20
               [] difficulty = "hard" -> 25
               [] OTHER -> defaultLength
        ELSE length

\* The draws of a do-while that takes the modifier from `modifiers` for
\* every difficulty.
drawnAnyModifier(difficulty) ==
    { <<baseMoves[f]>> \o modifier :
          f \in 1..Len(baseMoves),
          modifier \in { modifiers[k] : k \in 1..Len(modifiers) } }

\* The moves one pass of the do-while can draw (lines 58-70).
drawn(difficulty) ==
    { <<baseMoves[f]>> \o modifier :
          f \in 1..Len(baseMoves),
          modifier \in IF difficulty = "easy" THEN { <<>>, <<"'">> }
                       ELSE { modifiers[k] : k \in 1..Len(modifiers) } }

\* The exits of the do-while (lines 56-73), given the draws isValidMove
\* accepts and those it rejects.  The pass that brings the count to
\* `attempts` is reached after attempts - 1 rejected draws; the loop leaves
\* it on an accepted draw, or on any draw once the count is maxAttempts.
\* An exit is the move held and whether the test of line 75 then breaks.
doWhile(valid, invalid) ==
    { [move |-> move, exhausted |-> attempts >= maxAttempts] :
          attempts \in { a \in 1..maxAttempts : a = 1 \/ invalid # {} },
          move \in valid } \cup
    { [move |-> move, exhausted |-> attempts >= maxAttempts] :
          attempts \in { a \in {maxAttempts} : a = 1 \/ invalid # {} },
          move \in invalid }

\* The practice generators: the faces each draws from and its length; the
\* modifier of a draw is ' or nothing.
practice ==
    [type \in {"cross-solved", "f2l-practice", "oll-practice", "pll-practice"} |->
        CASE type = "cross-solved" ->
                 [moves |-> <<"R", "L", "U", "F", "B">>, length |-> 15]
          [] type = "f2l-practice" ->
                 [moves |-> <<"R", "L", "U", "F", "B">>, length |-> 12]
          [] type = "oll-practice" ->
                 [moves |-> <<"R", "L", "U", "F", "B">>, length |-> 8]
          [] type = "pll-practice" ->
                 [moves |-> <<"R", "L", "U">>, length |-> 6]]

\* The moves one pass of a practice generator's loop can push.
practiceDrawn(type) ==
    { <<practice[type].moves[f]>> \o modifier :
          f \in 1..Len(practice[type].moves), modifier \in { <<"'">>, <<>> } }

genIdle ==
    [pc |-> "idle", type |-> "", requested |-> <<>>, difficulty |-> "medium", length |-> 0,
     scramble |-> <<>>, lastMove |-> nullFace, lastLastMove |-> nullFace,
     move |-> <<>>, exhausted |-> FALSE, validation |-> <<>>]

\* ------------------------------------------------------------------------
\* CubeSolver.optimizeSolution.
charAt0(move) == IF move # <<>> THEN move[1] ELSE ""

includes(move, c) == \E k \in 1..Len(move) : move[k] = c

\* The inner while (lines 360-370): the count reached from `count`.
RECURSIVE countRun(_, _, _, _, _)
countRun(solution, i, count, baseFace, isClockwise) ==
    IF i + count < Len(solution)
    THEN LET nextMove == solution[i + count + 1]
             nextBaseFace == charAt0(nextMove)
             nextIsClockwise == ~includes(nextMove, "'")
         IN  IF nextBaseFace = baseFace /\ nextIsClockwise = isClockwise
             THEN countRun(solution, i, count + 1, baseFace, isClockwise)
             ELSE count
    ELSE count

\* The outer while (lines 352-383) has index i as its currentMove when i is
\* 0 or the inner while of the run before broke at i, that is when the move
\* at i differs in face or direction from the move before it.
visited(solution, i) ==
    \/ i = 0
    \/ charAt0(solution[i + 1]) # charAt0(solution[i])
    \/ includes(solution[i + 1], "'") # includes(solution[i], "'")

\* What the pass at index i pushes on `optimized` (lines 353-380).
pushed(solution, i) ==
    LET currentMove == solution[i + 1]
        baseFace == charAt0(currentMove)
        isClockwise == ~includes(currentMove, "'")
        count == countRun(solution, i, 1, baseFace, isClockwise)
        finalCount == count % 4
    IN  IF finalCount = 1 THEN << currentMove >>
        ELSE IF finalCount = 2 THEN << <<baseFace, "2">> >>
        ELSE IF finalCount = 3
             THEN << IF isClockwise THEN <<baseFace, "'">> ELSE <<baseFace>> >>
             ELSE <<>>

optimizeSolution(solution) ==
    IF Len(solution) = 0 THEN solution
    ELSE LET passes == [n \in 1..Len(solution) |->
                           IF visited(solution, n - 1) THEN pushed(solution, n - 1)
                           ELSE <<>>]
             kept == SelectSeq(passes, LAMBDA p : p # <<>>)
         IN  [j \in 1..Len(kept) |-> kept[j][1]]

\* The cube after executeMove of each move of the list in turn.
RECURSIVE executeAll(_, _)
executeAll(c, moves) ==
    IF moves = <<>> THEN c
    ELSE CHOOSE after \in { executeAll(next, Tail(moves)) :
                                next \in {executeMove(c, Head(moves)).cube} } : TRUE

\* ScrambleGenerator.generateReverseScramble with the moves kept in the
\* order of scrambleArray.
RECURSIVE generateReverseScrambleSameOrder(_)
generateReverseScrambleSameOrder(scrambleArray) ==
    IF scrambleArray = <<>> THEN <<>>
    ELSE LET move == Head(scrambleArray)
             face == extractFace(move)
         IN  << IF includes(move, "'") THEN <<face>>
                ELSE IF includes(move, "2") THEN <<face, "2">>
                ELSE <<face, "'">> >>
             \o generateReverseScrambleSameOrder(Tail(scrambleArray))

\* The for loop of generateReverseScramble from index i down to 0.
RECURSIVE reverseFrom(_, _, _)
reverseFrom(scrambleArray, i, reverse) ==
    IF i >= 0
    THEN LET move == scrambleArray[i + 1]
             face == extractFace(move)
         IN  reverseFrom(scrambleArray, i - 1,
                         Append(reverse,
                                IF includes(move, "'") THEN <<face>>
                                ELSE IF includes(move, "2") THEN <<face, "2">>
                                ELSE <<face, "'">>))
    ELSE reverse

generateReverseScramble(scrambleArray) ==
    reverseFrom(scrambleArray, Len(scrambleArray) - 1, <<>>)

revIdle ==
    [pc |-> "idle", scramble |-> <<>>, reverse |-> <<>>,
     start |-> <<>>, played |-> <<>>, restored |-> <<>>]

optIdle ==
    [pc |-> "idle", solution |-> <<>>, optimized |-> <<>>,
     start |-> <<>>, raw |-> <<>>, short |-> <<>>]

\* ------------------------------------------------------------------------
\* Arrays by reference.  A heap maps references to arrays (the nine colours
\* of a face, or a move history); a CubeState object holds the reference of
\* each face array and of its history, and its isCompleted flag; a snapshot
\* holds the reference of each face array.
FaceOrder == <<"U", "D", "R", "L", "F", "B">>

indexOf(face) == CHOOSE k \in 1..Len(FaceOrder) : FaceOrder[k] = face

top(h) == CHOOSE m \in DOMAIN h : \A r \in DOMAIN h : r <= m

\* The CubeState value held by object o.
load(h, o) ==
    Cube([face \in Faces |-> h[o.state[face]]], h[o.moveHistory], o.isCompleted)

\* The facelets a snapshot holds.
loadState(h, st) == [face \in Faces |-> h[st[face]]]

\* Six new arrays with the contents st: {U: [...], D: [...], ...}.
newFaces(h, st) ==
    LET t == top(h)
    IN  [heap |-> [r \in DOMAIN h \cup (t + 1)..(t + 6) |->
                      IF r \in DOMAIN h THEN h[r] ELSE st[FaceOrder[r - t]]],
         state |-> [face \in Faces |-> t + indexOf(face)]]

\* One new array: [], or [...array].
newArray(h, array) ==
    LET t == top(h)
    IN  [heap |-> [r \in DOMAIN h \cup {t + 1} |->
                      IF r \in DOMAIN h THEN h[r] ELSE array],
         ref |-> t + 1]

\* The arrays of object o written in place with the contents of cube c.
inPlace(h, o, c) ==
    [r \in DOMAIN h |->
        IF \E face \in Faces : o.state[face] = r
        THEN c.state[CHOOSE face \in Faces : o.state[face] = r]
        ELSE IF r = o.moveHistory THEN c.moveHistory
        ELSE h[r]]

\* reset(): this.state = {six new arrays}, this.moveHistory = [].
resetAt(h, o) ==
    LET faces == newFaces(h, reset.state)
        history == newArray(faces.heap, <<>>)
    IN  [heap |-> history.heap,
         obj |-> [state |-> faces.state, moveHistory |-> history.ref,
                  isCompleted |-> TRUE]]

\* executeMove(move): the face arrays and the history change in place.
executeMoveAt(h, o, move) ==
    LET r == executeMove(load(h, o), move)
    IN  [heap |-> inPlace(h, o, r.cube),
         obj |-> [o EXCEPT !.isCompleted = r.cube.isCompleted],
         ret |-> r.ret]

\* undoLastMove(): pop() in place, the reverse move on the face arrays, and
\* this.moveHistory = tempHistory, a new array.
undoLastMoveAt(h, o) ==
    IF Len(h[o.moveHistory]) = 0 THEN [heap |-> h, obj |-> o, ret |-> FALSE]
    ELSE LET r == undoLastMove(load(h, o))
             tempHistory == newArray(inPlace(h, o, r.cube), r.cube.moveHistory)
         IN  [heap |-> tempHistory.heap,
              obj |-> [o EXCEPT !.moveHistory = tempHistory.ref,
                                !.isCompleted = r.cube.isCompleted],
              ret |-> TRUE]

\* getStateCopy() handing out the face arrays of this.state themselves.
getStateCopyAtShared(h, o) == [heap |-> h, copy |-> o.state]

\* getStateCopy(): copy[face] = [...this.state[face]].
getStateCopyAt(h, o) ==
    LET copy == newFaces(h, getStateCopy(load(h, o)))
    IN  [heap |-> copy.heap, copy |-> copy.state]

\* setState(newState): this.state[face] = [...newState[face]].
setStateAt(h, o, newState) ==
    LET c == setState(load(h, o), loadState(h, newState))
        faces == newFaces(h, c.state)
    IN  [heap |-> faces.heap,
         obj |-> [o EXCEPT !.state = faces.state, !.isCompleted = c.isCompleted]]

\* getMoveHistory(): [...this.moveHistory].
getMoveHistoryAt(h, o) == newArray(h, getMoveHistory(load(h, o)))

\* clearHistory() running reset().
clearHistoryAtReset(h, o) == resetAt(h, o)

\* clearHistory(): this.moveHistory = [], a new array.
clearHistoryAt(h, o) ==
    LET history == newArray(h, clearHistory(load(h, o)).moveHistory)
    IN  [heap |-> history.heap, obj |-> [o EXCEPT !.moveHistory = history.ref]]

\* parseMove(move) and getReverseMove(move) read their argument only.
parseMoveAt(h, o, move) == [heap |-> h, obj |-> o, ret |-> parseMove(move)]

getReverseMoveAt(h, o, move) == [heap |-> h, obj |-> o, ret |-> getReverseMove(move)]

\* The references an object and a snapshot hold, in a fixed order.
refsOf(o) ==
    [k \in 1..(Len(FaceOrder) + 1) |->
        IF k <= Len(FaceOrder) THEN o.state[FaceOrder[k]] ELSE o.moveHistory]

refsOfState(st) == [k \in 1..Len(FaceOrder) |-> st[FaceOrder[k]]]

\* Memory with the unreachable arrays dropped and the references renumbered
\* in the order live engine, snapshot, working copy.
collect(m) ==
    LET roots == refsOf(m.live)
                 \o (IF m.snap = <<>> THEN <<>> ELSE refsOfState(m.snap[1]))
                 \o (IF m.work = <<>> THEN <<>> ELSE refsOf(m.work[1]))
        first(r) == CHOOSE i \in 1..Len(roots) :
                        roots[i] = r /\ \A j \in 1..(i - 1) : roots[j] # r
        name == [r \in {roots[i] : i \in 1..Len(roots)} |->
                    Cardinality({roots[j] : j \in 1..first(r)})]
        object(o) == [state |-> [face \in Faces |-> name[o.state[face]]],
                      moveHistory |-> name[o.moveHistory],
                      isCompleted |-> o.isCompleted]
    IN  [m EXCEPT
            !.heap = [n \in 1..Cardinality(DOMAIN name) |->
                         m.heap[CHOOSE r \in DOMAIN name : name[r] = n]],
            !.live = object(m.live),
            !.snap = IF m.snap = <<>> THEN <<>>
                     ELSE << [face \in Faces |-> name[m.snap[1][face]]] >>,
            !.work = IF m.work = <<>> THEN <<>> ELSE << object(m.work[1]) >>]

\* new CubeState(): the constructor runs reset().
memInit ==
    [heap |-> [r \in 1..7 |-> IF r = 7 THEN <<>> ELSE reset.state[FaceOrder[r]]],
     live |-> [state |-> [face \in Faces |-> indexOf(face)], moveHistory |-> 7,
               isCompleted |-> TRUE],
     snap |-> <<>>,
     work |-> <<>>,
     calls |-> 0,
     restored |-> FALSE]

\* ------------------------------------------------------------------------
\* CubeSolver: the formulas solve() uses, its stage predicates and stages.
algorithms ==
    [whiteCross |-> << <<"F">>, <<"U">>, <<"R">>, <<"U", "'">>, <<"R", "'">>, <<"F", "'">> >>,
     rightHand |-> << <<"R">>, <<"U">>, <<"R", "'">>, <<"U", "'">> >>,
     secondLayer |-> << <<"U">>, <<"R">>, <<"U", "'">>, <<"R", "'">>,
                        <<"U", "'">>, <<"F", "'">>, <<"U">>, <<"F">> >>,
     yellowCross |-> << <<"F">>, <<"R">>, <<"U">>, <<"R", "'">>, <<"U", "'">>, <<"F", "'">> >>,
     sune |-> << <<"R">>, <<"U">>, <<"R", "'">>, <<"U">>, <<"R">>, <<"U", "2">>, <<"R", "'">> >>,
     cornerPLL |-> << <<"R", "'">>, <<"F">>, <<"R", "'">>, <<"B", "2">>, <<"R">>,
                      <<"F", "'">>, <<"R", "'">>, <<"B", "2">>, <<"R", "2">> >>,
     edgePLL |-> << <<"R">>, <<"U">>, <<"R", "'">>, <<"F", "'">>, <<"R">>, <<"U">>,
                    <<"R", "'">>, <<"U", "'">>, <<"R", "'">>, <<"F">>, <<"R", "2">>,
                    <<"U", "'">>, <<"R", "'">> >>]

uMoves == << <<"U">>, <<"U", "'">>, <<"U", "2">> >>

isWhiteCrossSolved(c) ==
    LET dFace == c.state["D"]
    IN  dFace[1] = "yellow" /\ dFace[3] = "yellow" /\ dFace[5] = "yellow" /\ dFace[7] = "yellow"

areWhiteCornersSolved(c) == \A i \in Idx : c.state["D"][i] = "yellow"

isSecondLayerSolved(c) ==
    \A face \in {"F", "R", "B", "L"} :
        \A i \in {3, 4, 5} : c.state[face][i] = c.state[face][4]

isYellowCrossSolved(c) ==
    LET uFace == c.state["U"]
    IN  uFace[1] = "white" /\ uFace[3] = "white" /\ uFace[5] = "white" /\ uFace[7] = "white"

areYellowCornersOriented(c) == \A i \in Idx : c.state["U"][i] = "white"

areLastLayerCornersSolved(c) == isSecondLayerSolved(c)

\* areLastLayerEdgesSolved assuming, as the corner check does, that the
\* earlier stages did their work.
areLastLayerEdgesSolvedAssumed(c) == isSecondLayerSolved(c)

areLastLayerEdgesSolved(c) == checkCompleted(c.state)

\* The loops of solve() in order: the attempts each is given, the formula
\* it applies and whether the move after it is drawn at random.
Stages ==
    << [name |-> "solveWhiteCross", budget |-> 20,
        algorithm |-> algorithms.whiteCross, random |-> TRUE],
       [name |-> "solveWhiteCorners", budget |-> 30,
        algorithm |-> algorithms.rightHand, random |-> FALSE],
       [name |-> "solveSecondLayer", budget |-> 25,
        algorithm |-> algorithms.secondLayer, random |-> FALSE],
       [name |-> "solveYellowCross", budget |-> 15,
        algorithm |-> algorithms.yellowCross, random |-> FALSE],
       [name |-> "orientYellowCorners", budget |-> 20,
        algorithm |-> algorithms.sune, random |-> FALSE],
       [name |-> "permuteLastLayer corners", budget |-> 10,
        algorithm |-> algorithms.cornerPLL, random |-> FALSE],
       [name |-> "permuteLastLayer edges", budget |-> 10,
        algorithm |-> algorithms.edgePLL, random |-> FALSE] >>

\* The test that breaks out of the loop of stage k.
stageSolved(k, c) ==
    CASE k = 1 -> isWhiteCrossSolved(c)
      [] k = 2 -> areWhiteCornersSolved(c)
      [] k = 3 -> isSecondLayerSolved(c)
      [] k = 4 -> isYellowCrossSolved(c)
      [] k = 5 -> areYellowCornersOriented(c)
      [] k = 6 -> areLastLayerCornersSolved(c)
      [] k = 7 -> areLastLayerEdgesSolved(c)

\* state.executeMove(move) for each move of the list, on object o.
RECURSIVE executeAllAt(_, _, _)
executeAllAt(h, o, moves) ==
    IF moves = <<>> THEN [heap |-> h, obj |-> o]
    ELSE CHOOSE after \in { executeAllAt(next.heap, next.obj, Tail(moves)) :
                                next \in {executeMoveAt(h, o, Head(moves))} } : TRUE

\* createWorkingState with workingState.moveHistory = cubeState.moveHistory.
createWorkingStateAtSameHistory(h, cubeState) ==
    LET workingState == resetAt(h, cubeState)
        copy == getStateCopyAt(workingState.heap, cubeState)
        set == setStateAt(copy.heap, workingState.obj, copy.copy)
    IN  [heap |-> set.heap,
         obj |-> [set.obj EXCEPT !.moveHistory = cubeState.moveHistory]]

\* createWorkingState(cubeState): new CubeState(), setState(getStateCopy()),
\* moveHistory = [...getMoveHistory()].
createWorkingStateAt(h, cubeState) ==
    LET workingState == resetAt(h, cubeState)
        copy == getStateCopyAt(workingState.heap, cubeState)
        set == setStateAt(copy.heap, workingState.obj, copy.copy)
        history == getMoveHistoryAt(set.heap, cubeState)
        spread == newArray(history.heap, history.heap[history.ref])
    IN  [heap |-> spread.heap,
         obj |-> [set.obj EXCEPT !.moveHistory = spread.ref]]

\* getFallbackSolution(): the literal list.
getFallbackSolution ==
    << <<"R">>, <<"U">>, <<"R", "'">>, <<"U", "'">>,
       <<"R">>, <<"U">>, <<"R", "'">>, <<"U", "'">>,
       <<"F">>, <<"R">>, <<"U">>, <<"R", "'">>, <<"U", "'">>, <<"F", "'">>,
       <<"R">>, <<"U">>, <<"R", "'">>, <<"U">>, <<"R">>, <<"U", "2">>, <<"R", "'">>,
       <<"R">>, <<"U">>, <<"R", "'">>, <<"F", "'">>, <<"R">>, <<"U">>, <<"R", "'">>,
       <<"U", "'">>, <<"R", "'">>, <<"F">>, <<"R", "2">>, <<"U", "'">>, <<"R", "'">> >>

\* The calls of solve() inside its try block (lines 66-91);
\* createWorkingState (line 64) and optimizeSolution (line 97) are outside.
tryBlock ==
    {"solveWhiteCross", "solveWhiteCorners", "solveSecondLayer",
     "solveYellowCross", "orientYellowCorners", "permuteLastLayer"}

\* The first call of solve() that throws a TypeError for an argument that
\* is null, or a CubeState whose state was set from a snapshot without the
\* D face: createWorkingState reads cubeState.getStateCopy (line 105) and
\* isWhiteCrossSolved reads state.state.D[1] (lines 269-270).
firstThrow(cubeState) ==
    IF cubeState = Null THEN "createWorkingState" ELSE "solveWhiteCross"

\* solve() when the call `thrower` throws: the catch returns the fallback
\* for a call of the try block, and the error leaves solve() otherwise.
solveThrowing(thrower) ==
    IF thrower \in tryBlock
    THEN [pc |-> "returned", result |-> getFallbackSolution]
    ELSE [pc |-> "raised", result |-> <<"TypeError">>]

solverIdle ==
    [pc |-> "idle", stage |-> 0, attempts |-> 0, solution |-> <<>>, draws |-> 0,
     given |-> <<>>, result |-> <<>>]

\* ------------------------------------------------------------------------
\* RubiksCubeGame, CubeController and CubeRenderer (cube-renderer.js) and
\* GameTimer: the game state, the solution button, the renderer's animation
\* flag and queue, and the timers in flight.  Each handler is given the
\* cube c and the game g and answers the cube and the game after it.
solutionIdle ==
    [isShowing |-> FALSE, solution |-> <<>>, currentStep |-> 0, isExecuting |-> FALSE]

\* The game as constructed: init() ends with updateUI() on the solved cube.
\* timer is "idle", "inspecting" (isInspecting) or "running" (isRunning);
\* playbacks holds, per executeScrambleSequence call, the timers not fired
\* yet; animationQueue is the length of the renderer's queue, whose entries
\* nothing but the renderer reads; generating and stepTimers count the pending generateSolution and
\* executeSolutionStep timers; asked lists the animateLayerRotation calls of
\* the handler that is running; playerMoved, solvedFrom and handed record whether the
\* player moved since the last scramble or reset, the facelets solve was
\* given for solutionState.solution, and the moves executeSolutionStep
\* handed to the controller since.
gameIdle ==
    [currentScramble |-> <<>>, moveCount |-> 0, isScrambled |-> FALSE,
     solutionState |-> solutionIdle, timer |-> "idle",
     solutionBtnDisabled |-> TRUE,
     isAnimating |-> FALSE, animationQueue |-> 0,
     playbacks |-> <<>>, generating |-> 0, stepTimers |-> 0,
     asked |-> <<>>, playerMoved |-> FALSE, solvedFrom |-> <<>>, handed |-> <<>>]

NoArg == <<>>

\* What a handler answers: the cube, the game, the call it made on the
\* engine and the value that call returned.
Handled(c, g, name, move, r) ==
    [cube |-> c, game |-> g, op |-> [name |-> name, move |-> move], ret |-> r]

\* updateUI(): the solution button.
updateUI(c, g) ==
    [g EXCEPT !.solutionBtnDisabled = (g.timer = "running") \/ c.isCompleted]

\* CubeRenderer.animateLayerRotation: started now, or queued behind the
\* animation in progress.
animateLayerRotation(g, layer, clockwise) ==
    LET called == [g EXCEPT !.asked = Append(@, <<layer, clockwise>>)]
    IN  IF g.isAnimating
        THEN [called EXCEPT !.animationQueue = @ + 1]
        ELSE [called EXCEPT !.isAnimating = TRUE]

\* GameTimer.startTiming: onInspectionEnd() runs updateUI() before isRunning
\* is set.
startTiming(c, g) ==
    LET ended == IF g.timer = "inspecting"
                 THEN updateUI(c, [g EXCEPT !.timer = "idle"]) ELSE g
    IN  [ended EXCEPT !.timer = "running"]

\* handleCubeCompleted(): only after a scramble; stopTiming() stops a
\* running timer.
handleCubeCompleted(c, g) ==
    IF ~g.isScrambled THEN g
    ELSE updateUI(c, [g EXCEPT !.timer = IF @ = "running" THEN "idle" ELSE @,
                               !.isScrambled = FALSE])

\* controller.onMoveExecuted as set by setupControllerCallbacks.
onMoveExecuted(c, g) ==
    LET counted == [g EXCEPT !.moveCount = @ + 1]
        checked == IF checkCompleted(c.state) THEN handleCubeCompleted(c, counted)
                   ELSE counted
    IN  IF checked.timer # "running" /\ checked.isScrambled /\ checked.moveCount = 1
        THEN updateUI(c, startTiming(c, checked))
        ELSE checked

onMoveUndone(g) == [g EXCEPT !.moveCount = IF @ > 0 THEN @ - 1 ELSE 0]

\* CubeController.executeMove(move).
controllerExecuteMove(c, g, move) ==
    LET r == executeMove(c, move)
    IN  IF ~r.ret THEN Handled(c, g, "executeMove", move, FALSE)
        ELSE LET moveData == parseMove(move)
                 animated == animateLayerRotation(g, moveData.face, moveData.clockwise)
             IN  Handled(r.cube, onMoveExecuted(r.cube, animated),
                         "executeMove", move, TRUE)

\* CubeController.undoLastMove().
controllerUndoLastMove(c, g) ==
    LET history == getMoveHistory(c)
    IN  IF Len(history) = 0 THEN Handled(c, g, "none", NoArg, FALSE)
        ELSE LET r == undoLastMove(c)
                 lastMove == history[Len(history)]
                 reverseMove == getReverseMove(lastMove)
                 moveData == parseMove(reverseMove)
             IN  IF ~r.ret \/ moveData = Null
                 THEN Handled(r.cube, g, "undoLastMove", lastMove, r.ret)
                 ELSE Handled(r.cube,
                              onMoveUndone(animateLayerRotation(g, moveData.face,
                                                                moveData.clockwise)),
                              "undoLastMove", lastMove, TRUE)

\* handleCubeReset().
handleCubeReset(c, g) ==
    updateUI(c, [g EXCEPT !.timer = "idle", !.moveCount = 0,
                          !.isScrambled = FALSE, !.currentScramble = <<>>])

\* CubeController.resetCube(): the engine, the renderer's cubies, then
\* onCubeReset.  The renderer's animation in progress and its queue stay.
controllerResetCube(c, g) ==
    Handled(reset, handleCubeReset(reset, g), "reset", NoArg, TRUE)

\* scrambleCube() with the sequence generateScramble() returned:
\* executeScrambleSequence resets the engine at once and leaves its timers.
scrambleCube(c, g, scramble) ==
    LET started == [g EXCEPT !.currentScramble = scramble, !.timer = "idle",
                             !.moveCount = 0, !.isScrambled = TRUE,
                             !.playbacks = Append(@, [stage |-> "wait",
                                                      moves |-> scramble])]
    IN  Handled(reset, updateUI(reset, started), "reset", NoArg, TRUE)

\* The timer of executeScrambleSequence for the next move of playback i: the
\* engine's executeMove, then the renderer.
playbackMove(c, g, i) ==
    LET move == Head(g.playbacks[i].moves)
        r == executeMove(c, move)
        moveData == parseMove(move)
        fired == [g EXCEPT !.playbacks[i].moves = Tail(@)]
        animated == IF moveData # Null
                    THEN animateLayerRotation(fired, moveData.face, moveData.clockwise)
                    ELSE fired
    IN  Handled(r.cube, animated, "executeMove", move, r.ret)

\* completeSolutionExecution().
completeSolutionExecution(c, g) ==
    LET done == [g EXCEPT !.solutionState = solutionIdle]
    IN  IF checkCompleted(c.state) THEN handleCubeCompleted(c, done) ELSE done

\* executeSolutionStep(): nothing when not executing, the end of the
\* playback, a retry in 100 ms while the renderer animates, or the next
\* move and a timer of 300 ms.
executeSolutionStep(c, g) ==
    LET s == g.solutionState
    IN  IF ~s.isExecuting THEN Handled(c, g, "none", NoArg, FALSE)
        ELSE IF s.currentStep >= Len(s.solution)
        THEN Handled(Cube(c.state, c.moveHistory, checkCompleted(c.state)),
                     completeSolutionExecution(c, g), "none", NoArg, FALSE)
        ELSE IF g.isAnimating
        THEN Handled(c, [g EXCEPT !.stepTimers = @ + 1], "none", NoArg, FALSE)
        ELSE LET move == s.solution[s.currentStep + 1]
                 r == controllerExecuteMove(c, g, move)
             IN  Handled(r.cube,
                         [r.game EXCEPT !.solutionState.currentStep = @ + 1,
                                        !.stepTimers = @ + 1,
                                        !.handed = Append(@, move)],
                         "executeMove", move, r.ret)

\* showSolution() whose stop also rewinds currentStep to 0.
showSolutionRewinds(c, g) ==
    IF c.isCompleted THEN Handled(c, g, "none", NoArg, FALSE)
    ELSE IF g.solutionState.isExecuting
    THEN Handled(c, [g EXCEPT !.solutionState.isExecuting = FALSE,
                              !.solutionState.currentStep = 0],
                 "none", NoArg, FALSE)
    ELSE IF g.solutionState.isShowing
    THEN executeSolutionStep(c, [g EXCEPT !.solutionState.isExecuting = TRUE])
    ELSE Handled(c, [g EXCEPT !.solutionBtnDisabled = TRUE, !.generating = @ + 1],
                 "none", NoArg, FALSE)

\* showSolution(): the click on the solution button.
showSolution(c, g) ==
    IF c.isCompleted THEN Handled(c, g, "none", NoArg, FALSE)
    ELSE IF g.solutionState.isExecuting
    THEN Handled(c, [g EXCEPT !.solutionState.isExecuting = FALSE],
                 "none", NoArg, FALSE)
    ELSE IF g.solutionState.isShowing
    THEN executeSolutionStep(c, [g EXCEPT !.solutionState.isExecuting = TRUE])
    ELSE Handled(c, [g EXCEPT !.solutionBtnDisabled = TRUE, !.generating = @ + 1],
                 "none", NoArg, FALSE)

\* startGame(): a scramble when the cube is complete, nothing while the
\* timer runs, else the inspection.
startGame(c, g, scramble) ==
    IF c.isCompleted THEN scrambleCube(c, g, scramble)
    ELSE IF g.timer = "running" THEN Handled(c, g, "none", NoArg, FALSE)
    ELSE Handled(c, updateUI(c, [g EXCEPT !.timer = "inspecting"]),
                 "none", NoArg, FALSE)

\* handleSpaceKey(); togglePause() changes only the pause flag of the timer.
handleSpaceKey(c, g, scramble) ==
    IF g.timer = "inspecting"
    THEN Handled(c, updateUI(c, startTiming(c, g)), "none", NoArg, FALSE)
    ELSE IF g.timer = "running"
    THEN Handled(c, updateUI(c, g), "none", NoArg, FALSE)
    ELSE IF c.isCompleted THEN scrambleCube(c, g, scramble)
    ELSE startGame(c, g, scramble)

\* The timer of generateSolution() with the list solve(cubeState) returned.
generateSolution(c, g, solution) ==
    LET shown == IF Len(solution) > 0
                 THEN [g EXCEPT !.solutionState =
                                    [isShowing |-> TRUE, solution |-> solution,
                                     currentStep |-> 0, isExecuting |-> FALSE],
                                !.solvedFrom = c.state,
                                !.handed = <<>>]
                 ELSE g
    IN  [shown EXCEPT !.solutionBtnDisabled = FALSE, !.generating = @ - 1]

\* ------------------------------------------------------------------------
cube == Cube(state, moveHistory, isCompleted)

Install(c) ==
    /\ state' = c.state
    /\ moveHistory' = c.moveHistory
    /\ isCompleted' = c.isCompleted

Call(name, move, r) ==
    /\ op' = [name |-> name, move |-> move]
    /\ ret' = r
    /\ prev' = cube
    /\ working' = IF name = "createWorkingState"
                  THEN <<createWorkingState(cube)>> ELSE <<>>
    /\ UNCHANGED aux

EndRun ==
    /\ run' = 0
    /\ runStart' = state'

Init ==
    /\ state = reset.state
    /\ moveHistory = reset.moveHistory
    /\ isCompleted = reset.isCompleted
    /\ working = <<>>
    /\ pending = <<>>
    /\ playback = "idle"
    /\ op = [name |-> "constructor", move |-> NoArg]
    /\ ret = TRUE
    /\ prev = reset
    /\ run = 0
    /\ runStart = reset.state
    /\ gen = genIdle
    /\ opt = optIdle
    /\ rev = revIdle
    /\ mem = memInit
    /\ hop = [name |-> "constructor", changed |-> FALSE]
    /\ solver = solverIdle
    /\ game = gameIdle

\* cubeState.executeMove(move), by the player or by a playback timer.
Execute(move, limit) ==
    \E r \in {executeMove(cube, move)} :
        LET again == r.ret /\ op.name = "executeMove" /\ op.move = move /\ ret
        IN  /\ r.ret => Len(moveHistory) < limit
            /\ Install(r.cube)
            /\ Call("executeMove", move, r.ret)
            /\ run' = IF again THEN run + 1 ELSE IF r.ret THEN 1 ELSE 0
            /\ runStart' = IF again THEN runStart ELSE state

ExecuteMove ==
    /\ playback = "idle"
    /\ \E move \in Notations : Execute(move, MaxHistory)
    /\ UNCHANGED <<pending, playback>>

UndoLastMove ==
    /\ playback = "idle"
    /\ \E r \in {undoLastMove(cube)} :
           /\ Install(r.cube)
           /\ Call("undoLastMove", NoArg, r.ret)
    /\ EndRun
    /\ UNCHANGED <<pending, playback>>

Reset ==
    /\ playback = "idle"
    /\ Install(reset)
    /\ Call("reset", NoArg, TRUE)
    /\ EndRun
    /\ UNCHANGED <<pending, playback>>

\* executeScrambleSequence(scramble): reset now, the moves on timers.
ScrambleCube ==
    /\ playback = "idle"
    /\ \E scramble \in Scrambles : pending' = scramble
    /\ playback' = "playing"
    /\ Install(reset)
    /\ Call("reset", NoArg, TRUE)
    /\ EndRun

\* The timer of the next scramble move fires.
ScrambleStep ==
    /\ playback = "playing"
    /\ pending # <<>>
    /\ Execute(Head(pending), Len(moveHistory) + 1)
    /\ pending' = Tail(pending)
    /\ UNCHANGED playback

\* The last timer: clearHistory().
ScrambleEnd ==
    /\ playback = "playing"
    /\ pending = <<>>
    /\ Install(clearHistory(cube))
    /\ Call("clearHistory", NoArg, TRUE)
    /\ EndRun
    /\ playback' = "idle"
    /\ UNCHANGED pending

\* solve(cubeState) takes its working copy of the live cube.
CreateWorkingState ==
    /\ playback = "idle"
    /\ Call("createWorkingState", NoArg, TRUE)
    /\ UNCHANGED <<state, moveHistory, isCompleted, pending, playback>>
    /\ EndRun

\* executeMove of one notation again and again, after at most MaxPrefix
\* other moves.
ExecuteMoveAgain ==
    /\ playback = "idle"
    /\ run < MaxRun
    /\ \E move \in Notations :
          /\ \/ Len(moveHistory) < MaxPrefix
             \/ run > 0 /\ move = op.move
          /\ Execute(move, Len(moveHistory) + 1)
    /\ UNCHANGED <<pending, playback>>

Next ==
    \/ ExecuteMove
    \/ UndoLastMove
    \/ Reset
    \/ ScrambleCube
    \/ ScrambleStep
    \/ ScrambleEnd
    \/ CreateWorkingState

Spec == Init /\ [][Next]_vars

NextRepeat ==
    \/ ExecuteMoveAgain
    \/ ScrambleCube
    \/ ScrambleStep
    \/ ScrambleEnd

SpecRepeat == Init /\ [][NextRepeat]_vars


\* ------------------------------------------------------------------------
\* parseMove called on its own, on whatever cube the game has reached.  It
\* changes nothing, so one call between two engine operations is explored.
ParseAlphabet == {"R", "u", "x", "'", "2", " ", "\t"}

RECURSIVE StringsUpTo(_, _)
StringsUpTo(alphabet, n) ==
    IF n = 0 THEN { <<>> }
    ELSE LET shorter == StringsUpTo(alphabet, n - 1)
         IN  shorter \cup { Append(s, c) : s \in shorter, c \in alphabet }

ParseInputs == StringsUpTo(ParseAlphabet, MaxParseLen)

ParseMove ==
    /\ op.name # "parseMove"
    /\ \E move \in ParseInputs : Call("parseMove", move, parseMove(move))
    /\ UNCHANGED <<state, moveHistory, isCompleted, pending, playback>>
    /\ EndRun

NextParse ==
    \/ ParseMove
    \/ ScrambleCube
    \/ ScrambleStep
    \/ ScrambleEnd

SpecParse == Init /\ [][NextParse]_vars


\* ------------------------------------------------------------------------
\* generateScramble(length, difficulty), one position of its for loop at a
\* time, and validateScramble on what it returned.
Difficulties == {"easy", "medium", "hard", "expert"}

Requests == { <<>> } \cup { <<n>> : n \in 0..MaxScramble }

\* The draws explored at position i: every draw at the last MaxScramble
\* positions, and before them the one draw baseMoves[i mod 6].
explored(difficulty, i, length) ==
    IF i >= length - MaxScramble THEN drawn(difficulty)
    ELSE { <<baseMoves[(i % Len(baseMoves)) + 1]>> }

GenerateScramble ==
    /\ gen.pc = "idle"
    /\ \E requested \in Requests, difficulty \in Difficulties :
          LET length == lengthFor(requested, difficulty)
          IN  gen' = [genIdle EXCEPT !.pc = IF 0 < length THEN "loop" ELSE "returned",
                                     !.requested = requested,
                                     !.difficulty = difficulty,
                                     !.length = length]
    /\ UNCHANGED <<engine, game, opt, rev, mem, hop, solver>>

GenerateStep ==
    /\ gen.pc = "loop"
    /\ \E draws \in {explored(gen.difficulty, Len(gen.scramble), gen.length)} :
       \E valid \in {{move \in draws : isValidMove(move, gen.lastMove, gen.lastLastMove)}} :
       \E exit \in doWhile(valid, draws \ valid) :
          gen' = IF exit.exhausted
                 THEN [gen EXCEPT !.pc = "returned", !.move = exit.move,
                                  !.exhausted = TRUE]
                 ELSE [gen EXCEPT !.scramble = Append(@, exit.move),
                                  !.move = exit.move,
                                  !.lastLastMove = gen.lastMove,
                                  !.lastMove = extractFace(exit.move),
                                  !.pc = IF Len(gen.scramble) + 1 < gen.length
                                         THEN "loop" ELSE "returned"]
    /\ UNCHANGED <<engine, game, opt, rev, mem, hop, solver>>

ValidateScramble ==
    /\ gen.pc = "returned"
    /\ gen' = [gen EXCEPT !.pc = "validated",
                          !.validation = <<validateScramble(gen.scramble)>>]
    /\ UNCHANGED <<engine, game, opt, rev, mem, hop, solver>>

NextGenerate ==
    \/ GenerateScramble
    \/ GenerateStep
    \/ ValidateScramble

SpecGenerate == Init /\ [][NextGenerate]_vars


\* ------------------------------------------------------------------------
\* optimizeSolution(solution) called on its own, then both lists executed
\* move by move on a copy of one cube.
SolutionMoves == { <<"R">>, <<"R", "'">>, <<"R", "2">>, <<"U">>, <<"U", "'">> }

RECURSIVE ListsUpTo(_, _)
ListsUpTo(moves, n) ==
    IF n = 0 THEN { <<>> }
    ELSE LET shorter == ListsUpTo(moves, n - 1)
         IN  shorter \cup { Append(s, m) : s \in shorter, m \in moves }

Solutions == ListsUpTo(SolutionMoves, MaxSolution)

\* The cubes the lists are replayed on: solved, and after a scramble.
Starts == { <<>> } \cup Scrambles

OptimizeSolution ==
    /\ opt.pc = "idle"
    /\ \E solution \in Solutions :
          opt' = [optIdle EXCEPT !.pc = "optimized",
                                 !.solution = solution,
                                 !.optimized = optimizeSolution(solution)]
    /\ UNCHANGED <<engine, game, gen, rev, mem, hop, solver>>

Replay ==
    /\ opt.pc = "optimized"
    /\ \E scramble \in Starts :
       \E start \in {executeAll(reset, scramble)} :
          opt' = [opt EXCEPT !.pc = "replayed",
                             !.start = start.state,
                             !.raw = executeAll(start, opt.solution).state,
                             !.short = executeAll(start, opt.optimized).state]
    /\ UNCHANGED <<engine, game, gen, rev, mem, hop, solver>>

NextOptimize ==
    \/ OptimizeSolution
    \/ Replay

SpecOptimize == Init /\ [][NextOptimize]_vars


\* ------------------------------------------------------------------------
\* generateReverseScramble(scrambleArray), then the sequence and its reverse
\* executed move by move on one cube.
ScrambleArrays == ListsUpTo(ValidNotations, MaxReverse)

GenerateReverseScramble ==
    /\ rev.pc = "idle"
    /\ \E scrambleArray \in ScrambleArrays :
          rev' = [revIdle EXCEPT !.pc = "reversed",
                                 !.scramble = scrambleArray,
                                 !.reverse = generateReverseScramble(scrambleArray)]
    /\ UNCHANGED <<engine, game, gen, opt, mem, hop, solver>>

PlayAndReverse ==
    /\ rev.pc = "reversed"
    /\ \E scramble \in Starts :
       \E start \in {executeAll(reset, scramble)} :
       \E played \in {executeAll(start, rev.scramble)} :
          rev' = [rev EXCEPT !.pc = "played",
                             !.start = start.state,
                             !.played = played.state,
                             !.restored = executeAll(played, rev.reverse).state]
    /\ UNCHANGED <<engine, game, gen, opt, mem, hop, solver>>

NextReverse ==
    \/ GenerateReverseScramble
    \/ PlayAndReverse

SpecReverse == Init /\ [][NextReverse]_vars


\* ------------------------------------------------------------------------
\* The engine and a snapshot c of it, by reference: the engine's calls, the
\* c = getStateCopy() and setState(c) of a caller, and the caller's writes
\* to c.
AliasMoves == { <<"R">>, <<"U", "'">>, <<"F", "2">> }

Writes == { [face |-> "U", i |-> 0, color |-> "red"],
            [face |-> "F", i |-> 8, color |-> "white"] }

\* A call that leaves memory as m: what it changed is recorded.
Called(name, m) ==
    /\ mem.work = <<>>
    /\ mem.calls < MaxAliasCalls
    /\ \E after \in {collect([m EXCEPT !.calls = mem.calls + 1])} :
          /\ mem' = after
          /\ hop' = [name |-> name,
                     changed |-> load(after.heap, after.live).state
                                 # load(mem.heap, mem.live).state]
    /\ UNCHANGED <<engine, game, gen, opt, rev, solver>>

ExecuteMoveAt ==
    \E move \in AliasMoves :
    \E r \in {executeMoveAt(mem.heap, mem.live, move)} :
        Called("executeMove", [mem EXCEPT !.heap = r.heap, !.live = r.obj])

UndoLastMoveAt ==
    \E r \in {undoLastMoveAt(mem.heap, mem.live)} :
        Called("undoLastMove", [mem EXCEPT !.heap = r.heap, !.live = r.obj])

ResetAt ==
    \E r \in {resetAt(mem.heap, mem.live)} :
        Called("reset", [mem EXCEPT !.heap = r.heap, !.live = r.obj])

GetStateCopyAt ==
    \E r \in {getStateCopyAt(mem.heap, mem.live)} :
        Called("getStateCopy", [mem EXCEPT !.heap = r.heap, !.snap = <<r.copy>>,
                                           !.restored = FALSE])

SetStateAt ==
    /\ mem.snap # <<>>
    /\ \E r \in {setStateAt(mem.heap, mem.live, mem.snap[1])} :
          Called("setState", [mem EXCEPT !.heap = r.heap, !.live = r.obj,
                                         !.restored = TRUE])

\* The caller's c[face][i] = color.
WriteSnapshot ==
    /\ mem.snap # <<>>
    /\ \E w \in Writes :
          Called("write", [mem EXCEPT !.heap[mem.snap[1][w.face]][w.i] = w.color])

NextAlias ==
    \/ ExecuteMoveAt
    \/ UndoLastMoveAt
    \/ ResetAt
    \/ GetStateCopyAt
    \/ SetStateAt
    \/ WriteSnapshot

SpecAlias == Init /\ [][NextAlias]_vars


\* ------------------------------------------------------------------------
\* solve(cubeState) on the live engine, by reference: the player's moves
\* before it, the working copy, one pass of a stage's loop at a time, and
\* the return of the optimized list.
PlayerMove ==
    /\ solver.pc = "idle"
    /\ Len(mem.heap[mem.live.moveHistory]) < MaxSolveHistory
    /\ \E move \in AliasMoves :
       \E r \in {executeMoveAt(mem.heap, mem.live, move)} :
          mem' = collect([mem EXCEPT !.heap = r.heap, !.live = r.obj])
    /\ UNCHANGED <<engine, game, gen, opt, rev, hop, solver>>

Solve ==
    /\ solver.pc = "idle"
    /\ \E r \in {createWorkingStateAt(mem.heap, mem.live)} :
          mem' = collect([mem EXCEPT !.heap = r.heap, !.work = <<r.obj>>])
    /\ solver' = [solverIdle EXCEPT !.pc = "solving", !.stage = 1,
                                    !.given = load(mem.heap, mem.live)]
    /\ UNCHANGED <<engine, game, gen, opt, rev, hop>>

\* The moves after the formula: a random U move in solveWhiteCross, U in
\* the other stages.
lastMoves(k) ==
    IF Stages[k].random
    THEN IF solver.draws < MaxRandomDraws
         THEN { uMoves[n] : n \in 1..Len(uMoves) } ELSE { uMoves[1] }
    ELSE { <<"U">> }

\* SolveStep with loops that test the stage after the first pass only.
SolveStepTestAfter ==
    /\ solver.pc = "solving"
    /\ \E k \in {solver.stage} :
       \E stateCopy \in {load(mem.heap, mem.work[1])} :
          IF /\ solver.attempts < Stages[k].budget
             /\ (solver.attempts = 0 \/ ~stageSolved(k, stateCopy))
          THEN \E last \in lastMoves(k) :
               \E moves \in {Append(Stages[k].algorithm, last)} :
               \E r \in {executeAllAt(mem.heap, mem.work[1], moves)} :
                  /\ mem' = collect([mem EXCEPT !.heap = r.heap, !.work = <<r.obj>>])
                  /\ solver' = [solver EXCEPT
                                   !.attempts = @ + 1,
                                   !.solution = @ \o moves,
                                   !.draws = IF Stages[k].random /\ @ < MaxRandomDraws
                                             THEN @ + 1 ELSE @]
          ELSE /\ solver' = IF k < Len(Stages)
                            THEN [solver EXCEPT !.stage = k + 1, !.attempts = 0]
                            ELSE [solver EXCEPT
                                     !.pc = "returned",
                                     !.result = optimizeSolution(solver.solution)]
               /\ UNCHANGED mem
    /\ UNCHANGED <<engine, game, gen, opt, rev, hop>>

\* SolveStep with loops that end only when the stage's test holds.
SolveStepNoBudget ==
    /\ solver.pc = "solving"
    /\ \E k \in {solver.stage} :
       \E stateCopy \in {load(mem.heap, mem.work[1])} :
          IF ~stageSolved(k, stateCopy)
          THEN \E last \in lastMoves(k) :
               \E moves \in {Append(Stages[k].algorithm, last)} :
               \E r \in {executeAllAt(mem.heap, mem.work[1], moves)} :
                  /\ mem' = collect([mem EXCEPT !.heap = r.heap, !.work = <<r.obj>>])
                  /\ solver' = [solver EXCEPT
                                   !.attempts = @ + 1,
                                   !.solution = @ \o moves,
                                   !.draws = IF Stages[k].random /\ @ < MaxRandomDraws
                                             THEN @ + 1 ELSE @]
          ELSE /\ solver' = IF k < Len(Stages)
                            THEN [solver EXCEPT !.stage = k + 1, !.attempts = 0]
                            ELSE [solver EXCEPT
                                     !.pc = "returned",
                                     !.result = optimizeSolution(solver.solution)]
               /\ UNCHANGED mem
    /\ UNCHANGED <<engine, game, gen, opt, rev, hop>>

SolveStep ==
    /\ solver.pc = "solving"
    /\ \E k \in {solver.stage} :
       \E stateCopy \in {load(mem.heap, mem.work[1])} :
          IF solver.attempts < Stages[k].budget /\ ~stageSolved(k, stateCopy)
          THEN \E last \in lastMoves(k) :
               \E moves \in {Append(Stages[k].algorithm, last)} :
               \E r \in {executeAllAt(mem.heap, mem.work[1], moves)} :
                  /\ mem' = collect([mem EXCEPT !.heap = r.heap, !.work = <<r.obj>>])
                  /\ solver' = [solver EXCEPT
                                   !.attempts = @ + 1,
                                   !.solution = @ \o moves,
                                   !.draws = IF Stages[k].random /\ @ < MaxRandomDraws
                                             THEN @ + 1 ELSE @]
          ELSE /\ solver' = IF k < Len(Stages)
                            THEN [solver EXCEPT !.stage = k + 1, !.attempts = 0]
                            ELSE [solver EXCEPT
                                     !.pc = "returned",
                                     !.result = optimizeSolution(solver.solution)]
               /\ UNCHANGED mem
    /\ UNCHANGED <<engine, game, gen, opt, rev, hop>>

NextSolve ==
    \/ PlayerMove
    \/ Solve
    \/ SolveStep

SpecSolve == Init /\ [][NextSolve]_vars


\* solve(cubeState) runs to completion on the caller's thread: a call that
\* has started keeps taking the steps of its loops.  This is weak fairness
\* of SolveStep, with ENABLED <<SolveStep>>_vars written as the state
\* predicate it equals: both branches of SolveStep change `solver`, and one
\* of them can be taken whenever a call is in progress.
SolveRuns == []<>(solver.pc # "solving") \/ []<><<SolveStep>>_vars

SpecSolveFair == Init /\ [][NextSolve]_vars /\ SolveRuns


\* ------------------------------------------------------------------------
\* solve(cubeState) with an argument the stages cannot work on: null, or a
\* CubeState left without its D face by setState(snapshot).
Unusable == {Null} \cup { [faces |-> S] : S \in SUBSET (Faces \ {"D"}) }

SolveUnusable ==
    /\ solver.pc = "idle"
    /\ \E cubeState \in Unusable :
       \E r \in {solveThrowing(firstThrow(cubeState))} :
          solver' = [solverIdle EXCEPT !.pc = r.pc, !.result = r.result,
                                       !.given = cubeState]
    /\ UNCHANGED <<engine, game, gen, opt, rev, mem, hop>>

NextSolveAny ==
    \/ PlayerMove
    \/ Solve
    \/ SolveStep
    \/ SolveUnusable

SpecSolveAny == Init /\ [][NextSolveAny]_vars


\* ------------------------------------------------------------------------
\* validateScramble(scrambleArray) on a sequence supplied from outside:
\* moves of the grammar, and strings it does not match (lower case, a
\* leading space, the empty string, two modifiers).
ValidateTokens ==
    { <<"R">>, <<"L">>, <<"U">>, <<"R", "'">>, <<"L", "2">>,
      <<"r">>, <<" ", "R">>, <<>>, <<"R", "2", "'">> }

ValidateInputs == ListsUpTo(ValidateTokens, MaxValidate)

ValidateSupplied ==
    /\ gen.pc = "idle"
    /\ \E scrambleArray \in ValidateInputs :
          gen' = [genIdle EXCEPT !.pc = "checked",
                                 !.scramble = scrambleArray,
                                 !.validation = <<validateScramble(scrambleArray)>>]
    /\ UNCHANGED <<engine, game, opt, rev, mem, hop, solver>>

NextValidate ==
    \/ ValidateSupplied

SpecValidate == Init /\ [][NextValidate]_vars


\* ------------------------------------------------------------------------
\* generateSpecialScramble(type): one of the four practice generators, one
\* push of its loop at a time, or generateScramble() for any other type;
\* then validateScramble on what was returned.
Types == DOMAIN practice \cup {"other"}

\* The draws explored at position i of a practice generator: every draw at
\* the last MaxScramble positions, and before them one draw, the faces in
\* turn.
practiceExplored(type, i, length) ==
    IF i >= length - MaxScramble THEN practiceDrawn(type)
    ELSE { <<practice[type].moves[(i % Len(practice[type].moves)) + 1]>> }

GenerateSpecialScramble ==
    /\ gen.pc = "idle"
    /\ \E type \in Types :
          gen' = IF type \in DOMAIN practice
                 THEN [genIdle EXCEPT !.pc = "practice", !.type = type,
                                      !.length = practice[type].length]
                 ELSE [genIdle EXCEPT !.pc = "loop", !.type = type,
                                      !.length = lengthFor(<<>>, "medium")]
    /\ UNCHANGED <<engine, game, opt, rev, mem, hop, solver>>

PracticeStep ==
    /\ gen.pc = "practice"
    /\ \E move \in practiceExplored(gen.type, Len(gen.scramble), gen.length) :
          gen' = [gen EXCEPT !.scramble = Append(@, move),
                             !.pc = IF Len(gen.scramble) + 1 < gen.length
                                    THEN "practice" ELSE "returned"]
    /\ UNCHANGED <<engine, game, opt, rev, mem, hop, solver>>

NextPractice ==
    \/ GenerateSpecialScramble
    \/ PracticeStep
    \/ GenerateStep
    \/ ValidateScramble

SpecPractice == Init /\ [][NextPractice]_vars


\* ------------------------------------------------------------------------
\* The engine driven by executeMove, undoLastMove and reset alone.
NextMoves ==
    \/ ExecuteMove
    \/ UndoLastMove
    \/ Reset

SpecMoves == Init /\ [][NextMoves]_vars


\* ------------------------------------------------------------------------
\* Turns of opposite faces: after up to MaxCommute moves of any kind, one
\* more move and then a move of the face oppositeFaces gives for it.
CommuteMove ==
    /\ playback = "idle"
    /\ \E move \in ValidNotations :
          /\ Len(moveHistory) = MaxCommute + 1 =>
                 move[1] = oppositeFaces[moveHistory[Len(moveHistory)][1]]
          /\ Execute(move, MaxCommute + 2)
    /\ UNCHANGED <<pending, playback>>

NextCommute ==
    \/ CommuteMove
    \/ Reset

SpecCommute == Init /\ [][NextCommute]_vars


\* ------------------------------------------------------------------------
\* The game: the player's keys and clicks, and the timers of the scramble
\* playback, of generateSolution and of the solution playback, each firing
\* on its own.  The timers of one executeScrambleSequence call fire in the
\* order of their delays; timers of different calls fire in any order.
KeyMoves == { <<"R">>, <<"U", "'">> }

\* What generateScramble() hands to scrambleCube: the first
\* MaxGameScramble moves of two sequences it can return.
GameScrambles ==
    { SubSeq(s, 1, MaxGameScramble) :
          s \in { << <<"R">>, <<"U", "2">>, <<"F", "'">>, <<"L">> >>,
                  << <<"F", "'">>, <<"D">>, <<"R", "2">>, <<"B">> >> } }

\* What solve hands to generateSolution for a cube that is not complete: a
\* list that is not empty, here up to MaxGameSolution moves; for a
\* complete cube, the empty list.
GameSolutions ==
    { SubSeq(<< <<"R">>, <<"U", "2">>, <<"F", "'">>, <<"D">> >>, 1, n) :
          n \in 1..MaxGameSolution }

\* A handler starts with no call made on the renderer yet.
Heard(g) == [g EXCEPT !.asked = <<>>]

\* The handler has returned: its calls on the renderer are kept no longer.
GameStep(r, moved) ==
    /\ Install(r.cube)
    /\ game' = [r.game EXCEPT !.playerMoved = moved, !.asked = <<>>]
    /\ UNCHANGED <<working, pending, playback, op, ret, prev, run, runStart,
                   gen, opt, rev, mem, hop, solver>>

\* onKeyDown with one of the move keys.
GameKeyDown ==
    /\ ~game.isAnimating
    /\ Len(moveHistory) < MaxGameHistory
    /\ \E move \in KeyMoves :
       \E r \in {controllerExecuteMove(cube, Heard(game), move)} :
           GameStep(r, TRUE)

\* undoMove(), or Ctrl+Z in onKeyDown.
GameUndoMove ==
    /\ ~game.isAnimating
    /\ \E r \in {controllerUndoLastMove(cube, Heard(game))} :
           GameStep(r, TRUE)

\* The click on the reset button.
GameResetCube ==
    \E r \in {controllerResetCube(cube, Heard(game))} : GameStep(r, FALSE)

\* The click on the scramble button, or newGame().
GameScrambleCube ==
    /\ Len(game.playbacks) < MaxPlaybacks
    /\ \E scramble \in GameScrambles :
       \E r \in {scrambleCube(cube, Heard(game), scramble)} : GameStep(r, FALSE)

\* onKeyDown with the space key, on a cube that is not complete (on a
\* complete one it is scrambleCube()).
GameSpaceKey ==
    /\ ~game.isAnimating
    /\ ~isCompleted
    /\ \E r \in {handleSpaceKey(cube, Heard(game), <<>>)} :
           GameStep(r, game.playerMoved)

\* The update loop of the timer finds the inspection time used up.
InspectionEnd ==
    /\ game.timer = "inspecting"
    /\ GameStep(Handled(cube, startTiming(cube, Heard(game)), "none", NoArg, FALSE),
                game.playerMoved)

Without(s, i) == SubSeq(s, 1, i - 1) \o SubSeq(s, i + 1, Len(s))

\* The 100 ms timer of executeScrambleSequence: the timers of the moves and
\* of clearHistory are set.
PlaybackStart ==
    \E i \in 1..Len(game.playbacks) :
        /\ game.playbacks[i].stage = "wait"
        /\ GameStep(Handled(cube, [Heard(game) EXCEPT !.playbacks[i].stage = "moves"],
                            "none", NoArg, FALSE),
                    game.playerMoved)

\* The timer of the next move of a scramble.
PlaybackMove ==
    \E i \in 1..Len(game.playbacks) :
        /\ game.animationQueue < MaxAnimationQueue
        /\ game.playbacks[i].stage = "moves"
        /\ game.playbacks[i].moves # <<>>
        /\ \E r \in {playbackMove(cube, Heard(game), i)} :
               GameStep(r, game.playerMoved)

\* The last timer of a scramble: clearHistory().
PlaybackClear ==
    \E i \in 1..Len(game.playbacks) :
        /\ game.playbacks[i].stage = "moves"
        /\ game.playbacks[i].moves = <<>>
        /\ GameStep(Handled(clearHistory(cube),
                            [Heard(game) EXCEPT !.playbacks = Without(@, i)],
                            "clearHistory", NoArg, TRUE),
                    game.playerMoved)

\* The click on the solution button, while it is enabled.
ShowSolution ==
    /\ ~game.solutionBtnDisabled
    /\ game.stepTimers < MaxStepTimers
    /\ game.generating < MaxGenerating
    /\ Len(moveHistory) <= MaxGameHistory \/ game.solutionState.isShowing
    /\ \E r \in {showSolution(cube, Heard(game))} : GameStep(r, game.playerMoved)

\* The 100 ms timer of generateSolution().
GenerateSolution ==
    /\ game.generating > 0
    /\ \E solution \in IF checkCompleted(state) THEN { <<>> } ELSE GameSolutions :
           GameStep(Handled(cube, generateSolution(cube, Heard(game), solution),
                            "none", NoArg, FALSE),
                    game.playerMoved)

\* A timer set by executeSolutionStep fires.
SolutionStepTimer ==
    /\ game.stepTimers > 0
    /\ \E r \in {executeSolutionStep(cube, [Heard(game) EXCEPT !.stepTimers = @ - 1])} :
           GameStep(r, game.playerMoved)

\* The last frame of the animation in progress: the next one of the queue
\* starts.
AnimationEnd ==
    /\ game.isAnimating
    /\ GameStep(Handled(cube,
                        IF game.animationQueue > 0
                        THEN [Heard(game) EXCEPT !.animationQueue = @ - 1]
                        ELSE [Heard(game) EXCEPT !.isAnimating = FALSE],
                        "none", NoArg, FALSE),
                game.playerMoved)

\* The scramble playback and the player.
NextPlayback ==
    \/ GameKeyDown
    \/ GameUndoMove
    \/ GameResetCube
    \/ GameScrambleCube
    \/ PlaybackStart
    \/ PlaybackMove
    \/ PlaybackClear
    \/ AnimationEnd

SpecPlayback == Init /\ [][NextPlayback]_vars

\* The solution playback and the player.
NextSolution ==
    \/ GameKeyDown
    \/ GameUndoMove
    \/ GameResetCube
    \/ GameSpaceKey
    \/ InspectionEnd
    \/ ShowSolution
    \/ GenerateSolution
    \/ SolutionStepTimer
    \/ AnimationEnd

SpecSolution == Init /\ [][NextSolution]_vars

\* ------------------------------------------------------------------------
\* The engine by reference under every call of CubeState that owns one half
\* of it or none: the moves, the snapshot calls and the caller's writes as
\* above, and clearHistory, getMoveHistory, parseMove and getReverseMove.
FrameNotations == { <<"R">>, <<" ", "u", "'">>, <<"X">> }

ClearHistoryAt ==
    \E r \in {clearHistoryAt(mem.heap, mem.live)} :
        Called("clearHistory", [mem EXCEPT !.heap = r.heap, !.live = r.obj])

\* The copy handed out is dropped by the caller.
GetMoveHistoryAt ==
    \E r \in {getMoveHistoryAt(mem.heap, mem.live)} :
        Called("getMoveHistory", [mem EXCEPT !.heap = r.heap])

ParseMoveAt ==
    \E move \in FrameNotations :
    \E r \in {parseMoveAt(mem.heap, mem.live, move)} :
        Called("parseMove", [mem EXCEPT !.heap = r.heap, !.live = r.obj])

GetReverseMoveAt ==
    \E move \in FrameNotations :
    \E r \in {getReverseMoveAt(mem.heap, mem.live, move)} :
        Called("getReverseMove", [mem EXCEPT !.heap = r.heap, !.live = r.obj])

NextFrame ==
    \/ ExecuteMoveAt
    \/ GetStateCopyAt
    \/ SetStateAt
    \/ WriteSnapshot
    \/ ClearHistoryAt
    \/ GetMoveHistoryAt
    \/ ParseMoveAt
    \/ GetReverseMoveAt

SpecFrame == Init /\ [][NextFrame]_vars

\* ------------------------------------------------------------------------
\* Properties.

Quarter(move) == parseMove(move) # Null /\ ~parseMove(move).double

\* The 3 stickers of a neighbour strip <<face, indices>>.
Strip(st, tuple) == [k \in 1..3 |-> st[tuple[1]][tuple[2][k]]]

AllEqual(faceArray) == \A i, j \in Idx : faceArray[i] = faceArray[j]

\* C1: executeMove(M) followed by executeMove(getReverseMove(M)) leaves the
\* 54 facelets and isCompleted as they were before the first call.
C1_ReverseRestores ==
    [][ ( /\ op.name = "executeMove" /\ ret
          /\ op'.name = "executeMove"
          /\ op'.move = getReverseMove(op.move) )
        => ( /\ ret'
             /\ state' = prev.state
             /\ isCompleted' = prev.isCompleted ) ]_vars

C1_Witness ==
    /\ op.name = "executeMove" /\ ret
    /\ Len(moveHistory) = 2
    /\ moveHistory[1] \in ValidNotations
    /\ op.move = getReverseMove(moveHistory[1])
    /\ moveHistory[2] = op.move
    /\ prev.moveHistory = <<moveHistory[1]>>
    /\ prev.state # state
    /\ ~isCompleted

\* C2: each of the 6 colours appears exactly 9 times among the 54 facelets.
C2_NineOfEach ==
    \A color \in Colors :
        Cardinality({p \in Faces \X Idx : state[p[1]][p[2]] = color}) = 9

C2_Witness ==
    /\ op.name = "undoLastMove" /\ ret
    /\ moveHistory # <<>>
    /\ \A face \in Faces : ~AllEqual(state[face])

\* C3: the same notation executed four times in a row returns the 54
\* facelets to their arrangement before the first of the four calls.
C3_FourTimes == run = 4 => state = runStart

C3_Witness ==
    /\ run = 4
    /\ ~isCompleted
    /\ op.move \in LooseNotations \cup {<<"F", "2">>, <<"B", "'">>}

\* C4: checkCompleted() is true exactly when every face has 9 mutually
\* equal stickers, and the cached isCompleted equals that predicate on the
\* current facelets after every executeMove, undoLastMove, reset and (on
\* the solver's working copy) setState.
C4_CompletedCached ==
    /\ checkCompleted(state) = (\A face \in Faces : AllEqual(state[face]))
    /\ isCompleted = (\A face \in Faces : AllEqual(state[face]))
    /\ working # <<>> =>
          working[1].isCompleted = (\A face \in Faces : AllEqual(working[1].state[face]))

C4_Witness ==
    /\ op.name = "createWorkingState"
    /\ ~working[1].isCompleted
    /\ working[1].state = state
    /\ moveHistory # <<>>

\* C5: reset() yields the canonical solved assignment, an empty history and
\* isCompleted true.
C5_ResetSolved ==
    op.name = "reset" =>
        /\ \A i \in Idx :
              /\ state["U"][i] = "white" /\ state["D"][i] = "yellow"
              /\ state["R"][i] = "red"   /\ state["L"][i] = "orange"
              /\ state["F"][i] = "blue"  /\ state["B"][i] = "green"
        /\ \A f, g \in Faces : f # g => state[f][0] # state[g][0]
        /\ moveHistory = <<>>
        /\ isCompleted

C5_Witness ==
    /\ op.name = "reset"
    /\ ~prev.isCompleted
    /\ prev.moveHistory # <<>>

\* C6: executeMove of a string that is not a valid move after trimming and
\* uppercasing returns false and leaves facelets, history and isCompleted
\* as they were; parseMove returns null for it.
C6_MalformedRejected ==
    (op.name = "executeMove" /\ toUpperCase(trim(op.move)) \notin ValidNotations)
        => /\ ~ret
           /\ parseMove(op.move) = Null
           /\ state = prev.state
           /\ moveHistory = prev.moveHistory
           /\ isCompleted = prev.isCompleted

C6_Witness ==
    /\ op.name = "executeMove" /\ ~ret
    /\ op.move = <<"R", " ", "'">>
    /\ moveHistory # <<>>
    /\ ~isCompleted

\* C7: undoLastMove() on an empty history returns false and changes nothing.
C7_EmptyUndo ==
    (op.name = "undoLastMove" /\ prev.moveHistory = <<>>)
        => /\ ~ret
           /\ state = prev.state
           /\ moveHistory = <<>>
           /\ isCompleted = prev.isCompleted

C7_Witness ==
    /\ op.name = "undoLastMove"
    /\ prev.moveHistory = <<>>
    /\ ~prev.isCompleted

\* C8: a successful executeMove(M) followed by undoLastMove() returns true
\* and restores facelets, history and isCompleted to their values before
\* the executeMove.
C8_UndoRestores ==
    [][ (op.name = "executeMove" /\ ret /\ op'.name = "undoLastMove")
        => ( /\ ret'
             /\ state' = prev.state
             /\ moveHistory' = prev.moveHistory
             /\ isCompleted' = prev.isCompleted ) ]_vars

C8_Witness ==
    /\ op.name = "undoLastMove" /\ ret
    /\ prev.moveHistory = Append(moveHistory, prev.moveHistory[Len(prev.moveHistory)])
    /\ moveHistory # <<>>
    /\ state # prev.state
    /\ ~isCompleted

\* C9 as stated: a clockwise quarter turn of X gives tuple i of X's
\* neighbour-strip list the old content of tuple i-1, a counter-clockwise
\* one the old content of tuple i+1 (indices modulo 4).
C9_ShiftAsStated ==
    (op.name = "executeMove" /\ ret /\ Quarter(op.move)) =>
        LET list == rotations[parseMove(op.move).face].clockwise
            from(i) == IF parseMove(op.move).clockwise
                       THEN ((i + 2) % 4) + 1
                       ELSE (i % 4) + 1
        IN  \A i \in 1..4 : Strip(state, list[i]) = Strip(prev.state, list[from(i)])

\* C9, amended: a clockwise quarter turn of X gives tuple i of X's
\* neighbour-strip list the old content of tuple i+1, a counter-clockwise
\* one the old content of tuple i-1 (indices modulo 4).
C9_ShiftAmended ==
    (op.name = "executeMove" /\ ret /\ Quarter(op.move)) =>
        LET list == rotations[parseMove(op.move).face].clockwise
            from(i) == IF parseMove(op.move).clockwise
                       THEN (i % 4) + 1
                       ELSE ((i + 2) % 4) + 1
        IN  \A i \in 1..4 : Strip(state, list[i]) = Strip(prev.state, list[from(i)])

C9_Witness ==
    /\ op.name = "executeMove" /\ ret /\ Quarter(op.move)
    /\ ~parseMove(op.move).clockwise
    /\ LET list == rotations[parseMove(op.move).face].clockwise
       IN  \A i, j \in 1..4 : i # j => Strip(prev.state, list[i]) # Strip(prev.state, list[j])
    /\ \A face \in Faces : ~AllEqual(prev.state[face])

\* C10: executeMove(X2) produces the same facelets as two executeMove(X)
\* calls and as two executeMove(X') calls.
C10_HalfTurn ==
    (op.name = "executeMove" /\ ret /\ run = 2 /\ Quarter(op.move)) =>
        state = executeMove(Cube(runStart, <<>>, FALSE),
                            <<parseMove(op.move).face, "2">>).cube.state

C10_Witness ==
    /\ op.name = "executeMove" /\ ret /\ run = 2 /\ Quarter(op.move)
    /\ ~parseMove(op.move).clockwise
    /\ state # runStart
    /\ \A face \in Faces : ~AllEqual(runStart[face])

\* ------------------------------------------------------------------------
\* C11: parseMove accepts a string exactly when it is one of the 18 tokens
\* R, R', R2, ..., B2 written in either letter case and surrounded by any
\* amount of whitespace; for an accepted string it returns the token's face
\* letter, clockwise = FALSE only for the ' modifier and double = TRUE only
\* for the 2 modifier; and the cube is the same after the call as before.
LowerCase ==
    [c \in {"R", "L", "U", "D", "F", "B"} |->
        CASE c = "R" -> "r" [] c = "L" -> "l" [] c = "U" -> "u"
          [] c = "D" -> "d" [] c = "F" -> "f" [] c = "B" -> "b"]

Spells(s, token) ==
    /\ Len(s) = Len(token)
    /\ s[1] \in {token[1], LowerCase[token[1]]}
    /\ Len(token) = 2 => s[2] = token[2]

Surrounded(s, token) ==
    \E i \in 1..Len(s) : \E j \in i..Len(s) :
        /\ \A k \in 1..(i - 1) : s[k] \in Whitespace
        /\ \A k \in (j + 1)..Len(s) : s[k] \in Whitespace
        /\ Spells(SubSeq(s, i, j), token)

C11_ParseGrammar ==
    op.name = "parseMove" =>
        /\ cube = prev
        /\ (ret # Null) <=> (\E token \in ValidNotations : Surrounded(op.move, token))
        /\ \A token \in ValidNotations :
               Surrounded(op.move, token) =>
                   /\ ret.face = token[1]
                   /\ ret.clockwise = ~(Len(token) = 2 /\ token[2] = "'")
                   /\ ret.double = (Len(token) = 2 /\ token[2] = "2")

\* A lower-case counter-clockwise move between whitespace was parsed on a
\* scrambled cube.
C11_Witness ==
    /\ op.name = "parseMove"
    /\ op.move = <<" ", "u", "'">>
    /\ ret = [face |-> "U", clockwise |-> FALSE, double |-> FALSE]
    /\ state # reset.state

\* ------------------------------------------------------------------------
\* C12: the sequence returned by generateScramble has no two consecutive
\* moves on the same face and no three consecutive moves on a face, the
\* opposite face and the first face again.
Opposite(a, b) == {a, b} \in { {"R", "L"}, {"U", "D"}, {"F", "B"} }

C12_NoRepeatedFace ==
    gen.pc = "returned" =>
        LET s == gen.scramble
        IN  /\ \A i \in 1..(Len(s) - 1) : s[i][1] # s[i + 1][1]
            /\ \A i \in 1..(Len(s) - 2) :
                   ~(s[i][1] = s[i + 2][1] /\ Opposite(s[i][1], s[i + 1][1]))

\* A returned scramble of three moves whose first two are on opposite faces.
C12_Witness ==
    /\ gen.pc = "returned"
    /\ Len(gen.scramble) = 3
    /\ Opposite(gen.scramble[1][1], gen.scramble[2][1])

\* ------------------------------------------------------------------------
\* C13: validateScramble applied to the sequence generateScramble returned
\* reports isValid = TRUE and an empty list of errors.
C13_GeneratedValidates ==
    gen.pc = "validated" =>
        gen.validation = << [isValid |-> TRUE, errors |-> <<>>] >>

\* A full-length scramble with a half turn in it was validated.
C13_Witness ==
    /\ gen.pc = "validated"
    /\ ~gen.exhausted
    /\ Len(gen.scramble) = 3
    /\ \E i \in 1..3 : gen.scramble[i] = <<"U", "2">>
    /\ gen.validation[1].isValid

\* ------------------------------------------------------------------------
\* C14: for a supplied length n >= 0, generateScramble returns at most n
\* moves, and exactly n unless the retry budget ran out at some position.
C14_LengthAsSupplied ==
    (gen.pc = "returned" /\ gen.requested # <<>>) =>
        /\ Len(gen.scramble) <= gen.requested[1]
        /\ ~gen.exhausted => Len(gen.scramble) = gen.requested[1]

\* ------------------------------------------------------------------------
\* C17: optimizeSolution replaces each maximal run of moves on one face in
\* one rotational direction by the reduction of the run's length modulo 4
\* (0 nothing, 1 the quarter turn, 2 the half turn, 3 the opposite quarter
\* turn), run by run in order; a half turn, having neither of the two
\* directions, is never merged with a quarter turn and stays what
\* optimizeSolution makes of the half turns alone.
Direction(move) ==
    IF Len(move) = 1 THEN "clockwise"
    ELSE IF move[2] = "'" THEN "counterClockwise" ELSE "half"

SameRun(a, b) == a[1] = b[1] /\ Direction(a) = Direction(b)

\* The length of the maximal run that starts at position i of s.
RECURSIVE RunLength(_, _)
RunLength(s, i) ==
    IF i < Len(s) /\ SameRun(s[i], s[i + 1]) THEN 1 + RunLength(s, i + 1) ELSE 1

Reduced(move, k) ==
    IF Direction(move) = "half" THEN optimizeSolution([j \in 1..k |-> move])
    ELSE CASE k % 4 = 0 -> <<>>
           [] k % 4 = 1 -> << move >>
           [] k % 4 = 2 -> << <<move[1], "2">> >>
           [] k % 4 = 3 -> << IF Direction(move) = "clockwise"
                              THEN <<move[1], "'">> ELSE <<move[1]>> >>

RECURSIVE RunByRun(_, _)
RunByRun(s, i) ==
    IF i > Len(s) THEN <<>>
    ELSE LET k == RunLength(s, i)
         IN  Reduced(s[i], k) \o RunByRun(s, i + k)

C17_RunsReduced ==
    opt.pc = "optimized" => opt.optimized = RunByRun(opt.solution, 1)

\* ------------------------------------------------------------------------
\* C18: executing optimizeSolution(s) move by move gives the same 54
\* facelets as executing s move by move, from the same cube.
C18_OptimizedEquivalent ==
    opt.pc = "replayed" => opt.short = opt.raw

\* ------------------------------------------------------------------------
\* C19: generateReverseScramble(s) is s in reverse order with each move
\* replaced by getReverseMove of it, and executing s and then
\* generateReverseScramble(s) move by move restores all 54 facelets.
C19_ReverseScramble ==
    /\ rev.pc # "idle" =>
           /\ Len(rev.reverse) = Len(rev.scramble)
           /\ \A i \in 1..Len(rev.scramble) :
                  rev.reverse[i] = getReverseMove(rev.scramble[Len(rev.scramble) + 1 - i])
    /\ rev.pc = "played" => rev.restored = rev.start

\* A clockwise and a counter-clockwise move on two faces were played on a
\* scrambled cube, changed it, and the reverse was played after them.
C19_Witness ==
    /\ rev.pc = "played"
    /\ rev.scramble = << <<"R">>, <<"U", "'">> >>
    /\ rev.reverse = << <<"U">>, <<"R", "'">> >>
    /\ rev.start # reset.state
    /\ rev.played # rev.start
    /\ rev.restored = rev.start

\* ------------------------------------------------------------------------
\* C20: once c = getStateCopy() is taken, and also once setState(c) is
\* done, no executeMove, undoLastMove or reset of the engine changes the
\* facelets c holds, and no write to c changes the facelets, the history or
\* the flag of the engine.
SnapshotFacelets == IF mem.snap = <<>> THEN <<>> ELSE loadState(mem.heap, mem.snap[1])

C20_NoAliasing ==
    [][ /\ (mem.snap # <<>> /\ hop'.name \in {"executeMove", "undoLastMove", "reset"})
            => SnapshotFacelets' = SnapshotFacelets
        /\ hop'.name = "write"
            => load(mem.heap, mem.live)' = load(mem.heap, mem.live) ]_vars

\* After c = getStateCopy() and setState(c), executeMove changed the engine's
\* facelets and c still holds the facelets it was taken with.
C20_Witness ==
    /\ mem.snap # <<>>
    /\ mem.restored
    /\ hop.name = "executeMove"
    /\ hop.changed
    /\ SnapshotFacelets # load(mem.heap, mem.live).state

\* ------------------------------------------------------------------------
\* C15: from the call of solve(cubeState) to its return the 54 facelets,
\* the move history and the isCompleted flag of the cube it was given stay
\* what they were at the call.
C15_SolveLeavesCube ==
    solver.pc # "idle" => load(mem.heap, mem.live) = solver.given

\* solve returned moves for a cube with a history; its working copy was
\* turned and now differs from the cube.
C15_Witness ==
    /\ solver.pc = "returned"
    /\ solver.result # <<>>
    /\ solver.given.moveHistory # <<>>
    /\ load(mem.heap, mem.work[1]).state # solver.given.state
    /\ load(mem.heap, mem.work[1]).moveHistory # solver.given.moveHistory

\* ------------------------------------------------------------------------
\* C16: solve(cubeState) returns the empty list exactly when the cube it is
\* given is complete; for a complete cube no stage produces a move.
C16_EmptyIffComplete ==
    solver.pc = "returned" =>
        /\ (solver.result = <<>>) <=> checkCompleted(solver.given.state)
        /\ checkCompleted(solver.given.state) => solver.solution = <<>>

\* solve returned the empty list for a cube the player had turned back to
\* the solved state.
C16_Witness ==
    /\ solver.pc = "returned"
    /\ solver.given.moveHistory # <<>>
    /\ solver.given.isCompleted
    /\ solver.result = <<>>

\* ------------------------------------------------------------------------
\* C21: every call of solve returns, for every cube given and every outcome
\* of the random U turns; the loop of each stage makes at most its budget
\* of passes (20, 30, 25, 15, 20, 10, 10), at most 1020 moves are applied
\* to the working copy and the returned list has at most 1020 entries.
C21_SolveTerminates ==
    /\ [](solver.pc = "solving" =>
             /\ solver.attempts <= <<20, 30, 25, 15, 20, 10, 10>>[solver.stage]
             /\ Len(solver.solution) <= 1020)
    /\ [](solver.pc = "returned" =>
             /\ Len(solver.solution) <= 1020
             /\ Len(load(mem.heap, mem.work[1]).moveHistory)
                    <= Len(solver.given.moveHistory) + 1020
             /\ Len(solver.result) <= 1020)
    /\ (solver.pc = "solving" ~> solver.pc = "returned")

\* solve returned after the loop of a stage had used up its budget: the
\* last stage made its 10 passes on top of the moves of the earlier ones.
C21_Witness ==
    /\ solver.pc = "returned"
    /\ solver.attempts = 10
    /\ Len(solver.solution) > 140

\* ------------------------------------------------------------------------
\* C22: when a step of solve fails (the cloning of the cube, a stage, or
\* the optimization), solve raises no error and returns exactly the
\* fallback sequence.
C22_FailureGivesFallback ==
    solver.given \in Unusable =>
        /\ solver.pc = "returned"
        /\ solver.result = getFallbackSolution

\* ------------------------------------------------------------------------
\* C23: generateScramble stops before the requested length only when the
\* candidates sampled for the position all broke a rule; a candidate that
\* breaks none against the two moves accepted last, the one drawn on the
\* 100th attempt included, is appended.
C23_ValidCandidateAccepted ==
    (gen.pc = "returned" /\ gen.exhausted) =>
        ~isValidMove(gen.move, gen.lastMove, gen.lastLastMove)

\* ------------------------------------------------------------------------
\* C24: validateScramble reports isValid = TRUE exactly when every element
\* is one of R L U D F B followed by nothing, by ' or by 2 (as written, no
\* trimming and no case folding), no element is on the face of the element
\* before it, and no element is on the face of the element two before it
\* with the opposite face between them.
InGrammar(s) ==
    \/ s \in { <<f>> : f \in Faces }
    \/ s \in { <<f, m>> : f \in Faces, m \in {"'", "2"} }

C24_ValidExactly ==
    gen.pc = "checked" =>
        LET s == gen.scramble
        IN  gen.validation[1].isValid <=>
                /\ \A i \in 1..Len(s) : InGrammar(s[i])
                /\ \A i \in 1..(Len(s) - 1) : s[i][1] # s[i + 1][1]
                /\ \A i \in 1..(Len(s) - 2) :
                       ~(s[i][1] = s[i + 2][1] /\ Opposite(s[i][1], s[i + 1][1]))

\* R L R' was checked: every move is in the grammar and no two neighbours
\* share a face, and it is reported invalid for the third move.
C24_Witness ==
    /\ gen.pc = "checked"
    /\ gen.scramble = << <<"R">>, <<"L">>, <<"R", "'">> >>
    /\ ~gen.validation[1].isValid
    /\ Len(gen.validation[1].errors) = 1

\* ------------------------------------------------------------------------
\* C25: every entry of the errors list of validateScramble, for a format
\* error as for a rule violation, carries the position in the sequence of
\* the move it is about.
C25_ErrorsCarryPosition ==
    gen.pc = "checked" =>
        \A k \in 1..Len(gen.validation[1].errors) :
            LET e == gen.validation[1].errors[k]
            IN  /\ "position" \in DOMAIN e
                /\ e.position \in 1..Len(gen.scramble)
                /\ gen.scramble[e.position] = e.move

\* ------------------------------------------------------------------------
\* C26: a stage applies its formula only while its test fails on the
\* working copy.  Each pass appends the formula and one turn of the U face
\* and is counted, and the count never passes the budget; a stage is left
\* without a change to the working copy, with its test holding if fewer
\* passes than the budget were made, and the next stage (or the return)
\* follows whether or not the budget ran out.  So a stage whose test holds
\* on entry appends nothing.
WorkingCopy == load(mem.heap, mem.work[1])

C26_StageLoops ==
    [][ solver.pc = "solving" =>
          LET k == solver.stage
          IN  /\ solver'.solution # solver.solution =>
                    /\ ~stageSolved(k, WorkingCopy)
                    /\ solver'.stage = k
                    /\ solver'.attempts = solver.attempts + 1
                    /\ solver'.attempts <= Stages[k].budget
                    /\ \E u \in {<<"U">>, <<"U", "'">>, <<"U", "2">>} :
                          solver'.solution =
                              solver.solution \o Append(Stages[k].algorithm, u)
                    /\ WorkingCopy' =
                          executeAll(WorkingCopy,
                                     SubSeq(solver'.solution,
                                            Len(solver.solution) + 1,
                                            Len(solver'.solution)))
              /\ solver'.solution = solver.solution =>
                    /\ WorkingCopy' = WorkingCopy
                    /\ solver.attempts < Stages[k].budget => stageSolved(k, WorkingCopy)
                    /\ IF k < Len(Stages)
                       THEN solver'.pc = "solving" /\ solver'.stage = k + 1
                                                   /\ solver'.attempts = 0
                       ELSE solver'.pc = "returned" ]_vars

\* The loop of solveWhiteCross was left after some passes, fewer than its
\* budget, with the cross in place; solveWhiteCorners is about to start.
C26_Witness ==
    /\ solver.pc = "solving"
    /\ solver.stage = 2
    /\ solver.attempts = 0
    /\ Len(solver.solution) \in 1..139
    /\ isWhiteCrossSolved(WorkingCopy)

\* ------------------------------------------------------------------------
\* C27: the sequence a practice generator returns (cross-solved, F2L, OLL,
\* PLL) has no two consecutive moves on one face and no face, opposite
\* face, face pattern, and validateScramble reports it valid.
C27_PracticeValidates ==
    (gen.pc = "validated" /\ gen.type \in DOMAIN practice) =>
        LET s == gen.scramble
        IN  /\ \A i \in 1..(Len(s) - 1) : s[i][1] # s[i + 1][1]
            /\ \A i \in 1..(Len(s) - 2) :
                   ~(s[i][1] = s[i + 2][1] /\ Opposite(s[i][1], s[i + 1][1]))
            /\ gen.validation[1].isValid

\* ------------------------------------------------------------------------
\* C28: with difficulty 'easy' no move of the sequence generateScramble
\* returns is a half turn, whatever the length and the draws; with any
\* other difficulty each of the three modifiers (none, ', 2) can be drawn
\* and accepted at every position.
C28_EasyNoHalfTurns ==
    /\ (gen.pc = "returned" /\ gen.difficulty = "easy") =>
           \A i \in 1..Len(gen.scramble) :
               gen.scramble[i][Len(gen.scramble[i])] # "2"
    /\ (gen.pc = "loop" /\ gen.difficulty # "easy") =>
           \A modifier \in { <<>>, <<"'">>, <<"2">> } :
               \E move \in drawn(gen.difficulty) :
                   /\ move = <<move[1]>> \o modifier
                   /\ isValidMove(move, gen.lastMove, gen.lastLastMove)

\* An easy scramble of the supplied length 3 was returned with a clockwise
\* and a counter-clockwise move in it.
C28_Witness ==
    /\ gen.pc = "returned"
    /\ gen.difficulty = "easy"
    /\ gen.requested = <<3>>
    /\ Len(gen.scramble) = 3
    /\ \E i, j \in 1..3 : Len(gen.scramble[i]) = 1 /\ gen.scramble[j] = <<"F", "'">>

\* ------------------------------------------------------------------------
\* C29: the move history holds only moves of the player.  The player makes
\* no move between the start of a scramble, which empties the history, and
\* the end of its playback, so at every moment of the playback the history
\* is empty: no scramble move is in it for undoLastMove to undo.
C29_HistoryPlayerOnly ==
    playback = "playing" => moveHistory = <<>>

\* ------------------------------------------------------------------------
\* C30: every move is a physical turn.  The facelets that meet at a corner
\* or at an edge are read from the neighbour-strip tables: the facelets of
\* face a that touch face b are the strip of a in b's table, a corner of the
\* faces a, b, c takes from a the facelet that touches both b and c, and an
\* edge of a, b takes the middle of each strip.  Every quarter turn carries
\* the three facelets of a corner onto one corner and the two of an edge
\* onto one edge, which holds exactly when the turned face and its strips
\* go round in the same sense; so, from the solved cube on, every corner
\* and every edge shows the colours of one piece of the solved cube.
Touching(a, b) ==
    LET cycle == rotations[b].clockwise
        k == CHOOSE n \in 1..Len(cycle) : cycle[n][1] = a
    IN  cycle[k][2]

Adjacent(a, b) == \E n \in 1..4 : rotations[b].clockwise[n][1] = a

Corners ==
    { c \in SUBSET Faces :
          Cardinality(c) = 3 /\ \A a, b \in c : a # b => Adjacent(a, b) }

Edges == { e \in SUBSET Faces : Cardinality(e) = 2 /\ \A a, b \in e : a # b => Adjacent(a, b) }

\* The facelets <<face, index>> of a corner and of an edge.
CornerFacelets(c) ==
    { <<a, i>> : a \in c, i \in Idx } \cap
    { p \in Faces \X Idx :
          \A b \in c \ {p[1]} : \E j \in 1..3 : Touching(p[1], b)[j] = p[2] }

EdgeFacelets(e) ==
    { p \in e \X Idx : \A b \in e \ {p[1]} : Touching(p[1], b)[2] = p[2] }

Pieces == { CornerFacelets(c) : c \in Corners } \cup { EdgeFacelets(e) : e \in Edges }

ColoursAt(st, piece) == { st[p[1]][p[2]] : p \in piece }

C30_PhysicalTurns ==
    \A piece \in Pieces :
        /\ Cardinality(ColoursAt(state, piece)) = Cardinality(piece)
        /\ \E home \in Pieces : ColoursAt(state, piece) = ColoursAt(reset.state, home)

\* ------------------------------------------------------------------------
\* C31: in every state reached from reset() by executeMove (valid or
\* malformed) and undoLastMove alone, the facelets are the canonical solved
\* state with the notations of the move history applied in order, and the
\* history length counts the successful executeMove calls minus the
\* successful undoLastMove calls: each call that returns true adds or
\* removes exactly one entry, each call that returns false leaves the
\* history as it was, and reset() starts the count again at zero.
C31_HistoryExplainsFacelets ==
    /\ [](state = executeAll(reset, moveHistory).state)
    /\ [][ Len(moveHistory') =
             IF op'.name = "executeMove" /\ ret' THEN Len(moveHistory) + 1
             ELSE IF op'.name = "undoLastMove" /\ ret' THEN Len(moveHistory) - 1
             ELSE IF op'.name = "reset" THEN 0
             ELSE Len(moveHistory) ]_vars

\* A malformed call was refused after a loose notation and an undo took
\* place: the history holds the raw loose notation and a second move.
C31_Witness ==
    /\ op.name = "executeMove" /\ ~ret
    /\ Len(moveHistory) = 2
    /\ moveHistory[1] \in LooseNotations
    /\ state # reset.state

\* ------------------------------------------------------------------------
\* C32: in every state reached from reset() by moves and undos, facelet 4
\* of each face holds that face's home colour, and isCompleted is true only
\* when the facelets are the canonical solved assignment.
C32_CentresStay ==
    /\ \A face \in Faces : state[face][4] = reset.state[face][4]
    /\ isCompleted => state = reset.state

\* The flag came back after moves and an undo, with moves still recorded.
C32_Witness ==
    /\ isCompleted
    /\ op.name = "executeMove" /\ ret
    /\ ~prev.isCompleted
    /\ Len(moveHistory) = 2

\* ------------------------------------------------------------------------
\* C33: turns of opposite faces commute.  Whenever the last two moves
\* executed were a move a and then a move b of the face opposite to a's, in
\* any modifiers, the facelets are those of executing a then b on the cube
\* as it was before the two, and also those of executing b then a on it.
C33_OppositeCommute ==
    LET n == Len(moveHistory)
    IN  (n >= 2 /\ oppositeFaces[moveHistory[n - 1][1]] = moveHistory[n][1]) =>
            LET before == executeAll(reset, SubSeq(moveHistory, 1, n - 2))
                a == moveHistory[n - 1]
                b == moveHistory[n]
            IN  /\ state = executeAll(before, <<a, b>>).state
                /\ state = executeAll(before, <<b, a>>).state

\* A half turn then a counter-clockwise turn of the opposite face, after a
\* move of another axis, none of which leaves the cube as it was.
C33_Witness ==
    LET n == Len(moveHistory)
    IN  /\ n = 3
        /\ moveHistory[1] = <<"U">>
        /\ moveHistory[2] = <<"F", "2">>
        /\ moveHistory[3] = <<"B", "'">>
        /\ op.name = "executeMove" /\ ret
        /\ state # prev.state

\* ------------------------------------------------------------------------
\* C34: once every timer of the scramble playback has fired and the player
\* has made no move, the facelets are the solved state with
\* gameState.currentScramble applied in order, also when scrambleCube() or
\* resetCube() was called while timers of an earlier scramble were pending.
C34_PlaybackGivesScramble ==
    (game.playbacks = <<>> /\ ~game.playerMoved)
        => state = executeAll(reset, game.currentScramble).state

\* ------------------------------------------------------------------------
\* C35: the solution executeSolution plays back was computed by solve from
\* the facelets the cube has when the playback starts: whenever a shown
\* solution of which no step has run goes into execution, the facelets are
\* the ones solve was given for it (a player move, undo, reset or new
\* scramble after the solution was shown would have discarded it).
C35_SolutionIsCurrent ==
    [][ ( /\ game.solutionState.isShowing
          /\ ~game.solutionState.isExecuting
          /\ game.solutionState.currentStep = 0
          /\ game'.solutionState.isExecuting )
        => state = game.solvedFrom ]_vars

\* ------------------------------------------------------------------------
\* C36: during solution playback each move of solutionState.solution is
\* handed to the controller exactly once and in list order, however stop
\* and resume clicks interleave with the pending step timers: the moves
\* handed so far are the first currentStep moves of the list.  In every
\* state isExecuting implies isShowing and 0 <= currentStep <=
\* solution.length.  The playback state is reset to not showing and not
\* executing by the step that finds currentStep at solution.length while
\* executing, and by no step before that.
C36_PlaybackInOrder ==
    /\ [](game.solutionState.isExecuting => game.solutionState.isShowing)
    /\ [](/\ 0 <= game.solutionState.currentStep
          /\ game.solutionState.currentStep <= Len(game.solutionState.solution))
    /\ [](game.solutionState.isShowing
             => game.handed = SubSeq(game.solutionState.solution, 1,
                                     game.solutionState.currentStep))
    /\ [][ (game.solutionState.isShowing /\ ~game'.solutionState.isShowing)
               => /\ game.solutionState.currentStep = Len(game.solutionState.solution)
                  /\ game.handed = game.solutionState.solution
                  /\ game'.solutionState = solutionIdle ]_vars
    /\ [][ ( /\ game.solutionState.isExecuting
             /\ game.solutionState.currentStep = Len(game.solutionState.solution)
             /\ game'.stepTimers < game.stepTimers )
               => game'.solutionState = solutionIdle ]_vars

\* A playback that was stopped and resumed while its timer was pending: two
\* step timers are in flight, and the whole list of two moves was handed.
C36_Witness ==
    /\ game.solutionState.isExecuting
    /\ game.stepTimers = 2
    /\ Len(game.solutionState.solution) = 2
    /\ game.solutionState.currentStep = 2
    /\ game.handed = game.solutionState.solution

\* ------------------------------------------------------------------------
\* C37: the displayed cube follows the logical cube.  For every move the
\* controller or the scramble playback executes, and for every undo, the
\* quarter turns the renderer is asked for (face and direction of each
\* animateLayerRotation call, in order) are the quarter turns the engine
\* applies: turning the facelets as they were by exactly the turns asked
\* gives the facelets the engine has afterwards, two quarter turns for X2
\* and the inverse turn for an undo.
RECURSIVE Turned(_, _)
Turned(st, turns) ==
    IF turns = <<>> THEN st
    ELSE Turned(rotateFace(st, Head(turns)[1], Head(turns)[2]), Tail(turns))

Follows(r) == r.ret => r.cube.state = Turned(state, r.game.asked)

C37_RendererFollows ==
    /\ ~game.isAnimating =>
           /\ \A move \in KeyMoves :
                  Follows(controllerExecuteMove(cube, Heard(game), move))
           /\ Follows(controllerUndoLastMove(cube, Heard(game)))
    /\ \A i \in 1..Len(game.playbacks) :
           (game.playbacks[i].stage = "moves" /\ game.playbacks[i].moves # <<>>)
               => Follows(playbackMove(cube, Heard(game), i))

\* ------------------------------------------------------------------------
\* C38: clearHistory() leaves the engine with an empty history and with the
\* facelets and the isCompleted flag it had; setState(c) leaves it with the
\* facelets of c, with isCompleted recomputed from them and with the
\* history it had; getStateCopy, getMoveHistory, parseMove and
\* getReverseMove leave its facelets, its history and its flag as they were.
C38_FrameEffects ==
    [][ /\ hop'.name = "clearHistory"
            => /\ load(mem.heap, mem.live)'.moveHistory = <<>>
               /\ load(mem.heap, mem.live)'.state = load(mem.heap, mem.live).state
               /\ load(mem.heap, mem.live)'.isCompleted
                      = load(mem.heap, mem.live).isCompleted
        /\ hop'.name = "setState"
            => /\ load(mem.heap, mem.live)'.state = SnapshotFacelets
               /\ load(mem.heap, mem.live)'.isCompleted
                      = checkCompleted(SnapshotFacelets)
               /\ load(mem.heap, mem.live)'.moveHistory
                      = load(mem.heap, mem.live).moveHistory
        /\ hop'.name \in {"getStateCopy", "getMoveHistory", "parseMove",
                          "getReverseMove"}
            => load(mem.heap, mem.live)' = load(mem.heap, mem.live) ]_vars

\* After setState(c) changed the facelets of a turned engine, clearHistory()
\* emptied its history and left it turned and not completed.
C38_Witness ==
    /\ hop.name = "clearHistory"
    /\ mem.restored
    /\ load(mem.heap, mem.live).moveHistory = <<>>
    /\ load(mem.heap, mem.live).state # reset.state
    /\ ~load(mem.heap, mem.live).isCompleted
====
